---------------------------- MODULE Spec2Model ----------------------------
(***************************************************************************)
(* A model of BeepListener (src/beep-listener.js, the current version of   *)
(* the class, lines 1-888): the track validation pipeline as operators,    *)
(* and the capture / configDeterminator sessions as a state machine whose  *)
(* steps are the stretches of code between two awaits (JavaScript runs     *)
(* such a stretch without interleaving).                                   *)
(*                                                                         *)
(* Numbers.  Frequencies and amplitudes are integers (fractions where      *)
(* pitch is computed, thousandths where fixValues rounds).  Two JavaScript *)
(* values that are not numbers are kept apart from them: NaN (what pitch   *)
(* returns when it finds no maximum) and Undefined (an array read outside  *)
(* its bounds, a missing property).  Every JavaScript comparison with      *)
(* either of them is false; Lt, Gt, Le, Ge below say so.                   *)
(***************************************************************************)
EXTENDS Integers, Sequences, FiniteSets, TLC

VARIABLES
    \* ---- the pure-function harness (SpecTrack, SpecPercent) ----
    inTrack,      \* the track handed to the function under test
    inCfg,        \* the ConfigObj handed to it
    outValid,     \* what trackValidator returned        (NotRun before)
    outMedia,     \* what calculaMediaFreqAmp returned    (NotRun before)
    outPercent,   \* what validaPorcentagemAcionamentos returned (NotRun before)
    outCfg,       \* ConfigObj after capture's defaults; in SpecValidate the last
                  \* validate call and its result            (NotRun before)
    inSignal,     \* what freq() gave (SpecPitch), the frequency looked up (SpecAmplitude)
    outPitch,     \* what pitch returned, and its localMaxima (NotRun before)
    outAmplitude, \* what findAmplitude returned         (NotRun before)
    outFixed,     \* what fixValues returned, see SpecFix (NotRun before)
    \* ---- the class's static state (Spec) ----
    audioState,   \* AudioContext.state: "suspended" or "running"
    audioQueue,   \* resume() / suspend() calls the AudioContext has not performed yet
    lastRead,     \* BeepListener.lastRead
    EncontrouTrackFrequencia,   \* BeepListener.EncontrouTrackFrequencia
    checkValues,  \* ParameterValidator.parameterCheckConfigs[name].value
    calls,        \* the capture / configDeterminator / calibrateMic calls made so far, by number
    gain,         \* GainNode.gain.value, in units of 1 / GainUnit
    discover,     \* the gainDiscover run in progress (SpecGain)
    source        \* what the microphone hears, see Sources

signalVars == <<inSignal, outPitch, outAmplitude, outFixed>>

pureVars == <<inTrack, inCfg, outValid, outMedia, outPercent, outCfg, signalVars>>

restVars == <<gain, discover, source>>

classVars == <<audioState, audioQueue, lastRead, EncontrouTrackFrequencia,
               checkValues, calls, gain, discover, source>>

vars == <<inTrack, inCfg, outValid, outMedia, outPercent, outCfg, signalVars, audioState,
          audioQueue,
          lastRead, EncontrouTrackFrequencia, checkValues, calls, gain, discover,
          source>>

-----------------------------------------------------------------------------
(* JavaScript values *)

\* pitch: maximaMean = undefined / 0 is NaN when no maximum was found
NaN == 999999

\* findAmplitude: amplitudeArray[NaN], or an index outside the array
Undefined == 999998

IsNum(x) == x # NaN /\ x # Undefined

Lt(a, b) == IsNum(a) /\ IsNum(b) /\ a < b

Gt(a, b) == IsNum(a) /\ IsNum(b) /\ a > b

Le(a, b) == IsNum(a) /\ IsNum(b) /\ a <= b

Ge(a, b) == IsNum(a) /\ IsNum(b) /\ a >= b

\* ConfigObj.name: undefined when the object has no such property
Get(obj, name) == IF name \in DOMAIN obj THEN obj[name] ELSE Undefined

RECURSIVE Sum(_)
Sum(s) == IF s = <<>> THEN 0 ELSE Head(s) + Sum(Tail(s))

RECURSIVE Gcd(_, _)
Gcd(a, b) == IF b = 0 THEN a ELSE Gcd(b, a % b)

Abs(x) == IF x < 0 THEN -x ELSE x

\* the quotient a / b of two integers, b > 0, as a fraction in lowest terms
Quot(a, b) ==
    LET g == Gcd(Abs(a), b)
    IN  [num |-> a \div g, den |-> b \div g]

\* Math.floor(n / 2), the index a textbook median of an odd-length array uses
RoundHalfDown(n) == n \div 2

\* Math.round(n / 2) for an integer n >= 0: halves round up
RoundHalf(n) == (n + 1) \div 2

RECURSIVE Insert(_, _)
Insert(x, s) ==
    IF s = <<>> THEN <<x>>
    ELSE IF Gt(Head(s), x) \/ (Head(s) = Undefined /\ x # Undefined)
         THEN <<x>> \o s
         ELSE <<Head(s)>> \o Insert(x, Tail(s))

\* array.sort((a, b) => a - b): ascending, undefined entries last
RECURSIVE SortAsc(_)
SortAsc(s) == IF s = <<>> THEN <<>> ELSE Insert(Head(s), SortAsc(Tail(s)))

-----------------------------------------------------------------------------
(***************************************************************************)
(* track.length * (validTrackPercentage / 100) in IEEE-754 doubles.        *)
(*                                                                         *)
(* For an integer percentage p in 1..100 the quotient p / 100 lies in the  *)
(* binade [2^-j, 2^(1-j)) with j = BinadeShift(p), so the double nearest   *)
(* to it is M / 2^k with k = 52 + j and M the integer nearest to           *)
(* p * 2^k / 100.  With m = (p * 2^k) mod 100 that is                      *)
(*     fl(p / 100) = p / 100 + r / (100 * 2^k),                            *)
(*     r = -m when m < 50 (rounded down), 100 - m otherwise (rounded up);  *)
(* m = 50 cannot happen, p * 2^k being a multiple of 4.                    *)
(* The product n * fl(p / 100) is then n * p / 100 + n * r / (100 * 2^k),  *)
(* rounded once more to a double.  count >= product is decided by the      *)
(* exact comparison whenever count # n * p / 100 (the two differ by at     *)
(* least 1/100, the rounding by less than 2^-40).  When count equals       *)
(* t = n * p / 100, the comparison fails exactly when the product rounds   *)
(* to a double above t: t lies in [2^e, 2^(e+1)), the doubles there are    *)
(* 2^(e-52) apart, and ties go to t (even mantissa), so that is            *)
(*     n * r / (100 * 2^k) > 2^(e-53),  i.e.  2 * n * r > 100 * 2^(e+j).   *)
(***************************************************************************)

RECURSIVE Pow2(_)
Pow2(k) == IF k = 0 THEN 1 ELSE 2 * Pow2(k - 1)

RECURSIVE Pow2Mod100(_)
Pow2Mod100(k) == IF k = 0 THEN 1 ELSE (2 * Pow2Mod100(k - 1)) % 100

\* the least j >= 0 with p * 2^j >= 100, for 1 <= p <= 100
BinadeShift(p) == CHOOSE j \in 0..7 :
    /\ p * Pow2(j) >= 100
    /\ \A i \in 0..7 : p * Pow2(i) >= 100 => j <= i

\* r above: the rounding error of p / 100, in units of 1 / (100 * 2^(52 + j))
QuotientExcess(p) ==
    IF p = 0 THEN 0
    ELSE LET m == (p * Pow2Mod100(52 + BinadeShift(p))) % 100
         IN  IF m < 50 THEN -m ELSE 100 - m

\* the greatest e >= 0 with 2^e <= t, for 1 <= t < 2^12
Log2Floor(t) == CHOOSE e \in 0..11 :
    /\ Pow2(e) <= t
    /\ t < Pow2(e + 1)

\* count >= n * (p / 100), evaluated as JavaScript evaluates it
GeFloatProduct(count, n, p) ==
    IF 100 * count > n * p THEN TRUE
    ELSE IF 100 * count < n * p THEN FALSE
    ELSE IF count = 0 THEN TRUE
    ELSE ~(2 * n * QuotientExcess(p) > 100 * Pow2(Log2Floor(count) + BinadeShift(p)))

-----------------------------------------------------------------------------
(* The track validation pipeline *)

\* value >= ConfigObj.minFreq && value <= ConfigObj.maxFreq
InFreqRange(value, ConfigObj) ==
    Ge(value, ConfigObj.minFreq) /\ Le(value, ConfigObj.maxFreq)

validaPorcentagemAcionamentos(track, ConfigObj) ==
    LET filteredArray == SelectSeq(track, LAMBDA f : InFreqRange(f, ConfigObj))
    IN  GeFloatProduct(Len(filteredArray), Len(track), ConfigObj.validTrackPercentage)

\* the indices of track.frequencia that the filter callback keeps, in order
RECURSIVE KeptIndices(_, _, _)
KeptIndices(frequencia, ConfigObj, i) ==
    IF i > Len(frequencia) THEN <<>>
    ELSE (IF InFreqRange(frequencia[i], ConfigObj) THEN <<i>> ELSE <<>>)
         \o KeptIndices(frequencia, ConfigObj, i + 1)

trackFilter(track, ConfigObj) ==
    LET kept == KeptIndices(track.frequencia, ConfigObj, 1)
    IN  [frequencia |-> [i \in 1..Len(kept) |-> track.frequencia[kept[i]]],
         amplitude  |-> [i \in 1..Len(kept) |-> track.amplitude[kept[i]]]]

\* reduce() without an initial value throws a TypeError on an empty array, and
\* the frequencia property is evaluated first.  sort() sorts ampTrack in place:
\* ampTrack is the caller's array as the call leaves it.
calculaMediaFreqAmp(freqTrack, ampTrack) ==
    IF freqTrack = <<>>
    THEN [threw |-> TRUE, ampTrack |-> ampTrack]
    ELSE LET sorted == SortAsc(ampTrack)
             index  == RoundHalf(Len(ampTrack))
         IN  [threw      |-> FALSE,
              frequencia |-> Quot(Sum(freqTrack), Len(freqTrack)),
              amplitude  |-> IF index + 1 <= Len(sorted) THEN sorted[index + 1]
                             ELSE Undefined,
              ampTrack   |-> sorted]

\* ConfigObj.amplitudeValidation && media.amplitude < ConfigObj.minAmplitude
\*     || media.amplitude > ConfigObj.maxAmplitude        (&& binds tighter)
AmplitudeRejects(amplitude, ConfigObj) ==
    \/ ConfigObj.amplitudeValidation /\ Lt(amplitude, Get(ConfigObj, "minAmplitude"))
    \/ Gt(amplitude, Get(ConfigObj, "maxAmplitude"))

Rejected == [threw |-> FALSE, result |-> FALSE]

Thrown == [threw |-> TRUE, result |-> FALSE]

\* the value trackValidator returns (Thrown: calculaMediaFreqAmp threw in it)
trackValidator(track, ConfigObj) ==
    IF ~validaPorcentagemAcionamentos(track.frequencia, ConfigObj) THEN Rejected
    ELSE LET filteredTrack == trackFilter(track, ConfigObj)
             media == calculaMediaFreqAmp(filteredTrack.frequencia, filteredTrack.amplitude)
         IN  IF media.threw THEN Thrown
             ELSE IF AmplitudeRejects(media.amplitude, ConfigObj) THEN Rejected
             ELSE [threw           |-> FALSE,
                   result          |-> TRUE,
                   frequencia      |-> filteredTrack.frequencia,
                   frequenciaMedia |-> media.frequencia,
                   amplitude       |-> media.ampTrack,
                   amplitudeMedia  |-> media.amplitude]

\* this.EncontrouTrackFrequencia = true, the assignment trackValidator makes
\* once the percentage gate is passed (and before anything can throw)
SetsEncontrouTrackFrequencia(track, ConfigObj) ==
    validaPorcentagemAcionamentos(track.frequencia, ConfigObj)

\* the two parallel arrays getData returns, from its readings <<frequency, amplitude>>
MkTrack(rs) ==
    [frequencia |-> [i \in 1..Len(rs) |-> rs[i][1]],
     amplitude  |-> [i \in 1..Len(rs) |-> rs[i][2]]]

\* the harness of a function: not called yet, or its returned value
NotRun == [run |-> FALSE]

Ran(v) == [run |-> TRUE, value |-> v]

-----------------------------------------------------------------------------
(***************************************************************************)
(* Parameter objects, defaults and ParameterValidator.                     *)
(*                                                                         *)
(* A parameter object is a record holding the properties its caller set.   *)
(* Its values have the types the checks ask for, so a typeCheck fails only *)
(* on a value that is undefined.                                           *)
(***************************************************************************)

\* the property is null or undefined; amplitudeValidation, when an object of
\* the model has it, is a boolean
IsUnset(obj, n) ==
    \/ n \notin DOMAIN obj
    \/ n # "amplitudeValidation" /\ obj[n] = Undefined

\* the property is falsy
IsFalsy(obj, n) ==
    \/ IsUnset(obj, n)
    \/ n = "amplitudeValidation" /\ ~obj[n]
    \/ n # "amplitudeValidation" /\ obj[n] \in {0, NaN}

\* obj.name ||= defaults.name: a default replaces every falsy value
WithDefaultsForFalsy(obj, defaults) ==
    [n \in DOMAIN obj \cup DOMAIN defaults |->
        IF n \in DOMAIN defaults /\ IsFalsy(obj, n) THEN defaults[n] ELSE obj[n]]

\* obj.name ??= defaults.name, for every name of defaults
WithDefaults(obj, defaults) ==
    [n \in DOMAIN obj \cup DOMAIN defaults |->
        IF n \in DOMAIN defaults /\ IsUnset(obj, n) THEN defaults[n] ELSE obj[n]]

CaptureDefaults ==
    [minFreq |-> 2950, maxFreq |-> 3050, amplitudeValidation |-> TRUE,
     minAmplitude |-> -30, maxAmplitude |-> -20, validTrackPercentage |-> 70,
     trackSize |-> 500, timeOut |-> 10000]

ConfigDeterminatorDefaults ==
    [minFreq |-> 2950, maxFreq |-> 3050, validTrackPercentage |-> 70,
     trackSize |-> 500, timeOut |-> 10000]

\* ConfigObj.amplitudeValidation = false, after the defaults
ConfigDeterminatorConfig(obj) ==
    [n \in DOMAIN obj \cup DOMAIN ConfigDeterminatorDefaults \cup {"amplitudeValidation"} |->
        IF n = "amplitudeValidation" THEN FALSE
        ELSE IF n \in DOMAIN obj THEN obj[n] ELSE ConfigDeterminatorDefaults[n]]

\* the keys of parameterCheckConfigs, in the order capture's defaults create them
ParameterNames ==
    <<"minFreq", "maxFreq", "amplitudeValidation", "minAmplitude", "maxAmplitude",
      "validTrackPercentage", "trackSize", "timeOut", "firstReadTimeOut",
      "sampleRate", "fftSize", "smoothingTimeConstant", "gain", "deviceId">>

KnownNames == {ParameterNames[i] : i \in 1..Len(ParameterNames)}

\* parameterCheckConfigs[name].value after validate's first loop, for the
\* names that were ever given a value: the others hold undefined
StoredValues(params, stored) ==
    [n \in DOMAIN stored \cup (DOMAIN params \cap KnownNames) |->
        IF n \in DOMAIN params THEN params[n] ELSE stored[n]]

\* typeCheck.condition(value)
TypeCheck(name, v) ==
    IF name = "amplitudeValidation" THEN v \in BOOLEAN
    ELSE IF name = "deviceId" THEN TRUE
    ELSE v # Undefined

\* valueCheck.condition(value), for the parameters that have one
ValueCheck(name, v) ==
    CASE name \in {"minFreq", "maxFreq", "trackSize"} -> Gt(v, 0)
      [] name = "validTrackPercentage" -> Ge(v, 0) /\ Le(v, 100)
      [] name = "sampleRate" -> Ge(v, 8000) /\ Le(v, 96000)
      [] name = "smoothingTimeConstant" -> Ge(v, 0) /\ Le(v, 1)
      [] name = "fftSize" -> \E e \in 5..15 : v = Pow2(e)
      [] OTHER -> TRUE

\* rangeCheck.condition(...params): the params getter reads the stored values
RangeCheck(name, values) ==
    CASE name = "minFreq" -> Le(Get(values, "minFreq"), Get(values, "maxFreq"))
      [] name = "minAmplitude" ->
             Le(Get(values, "minAmplitude"), Get(values, "maxAmplitude"))
      [] OTHER -> TRUE

\* the first parameter of params, in order, that fails the check
FirstFailing(params, Check(_)) ==
    LET failing == {i \in 1..Len(ParameterNames) :
                        ParameterNames[i] \in DOMAIN params /\ ~Check(ParameterNames[i])}
    IN  IF failing = {} THEN 0
        ELSE CHOOSE i \in failing : \A j \in failing : i <= j

\* ParameterValidator.validate(params), given the values stored by earlier calls
validate(params, stored) ==
    LET values == StoredValues(params, stored)
        byType  == FirstFailing(params, LAMBDA n : TypeCheck(n, values[n]))
        byValue == FirstFailing(params, LAMBDA n : ValueCheck(n, values[n]))
        byRange == FirstFailing(params, LAMBDA n : RangeCheck(n, values))
    IN  IF ~(DOMAIN params \subseteq KnownNames)
        THEN [success |-> FALSE, message |-> <<"parameter", "not configured">>]
        ELSE IF byType # 0
        THEN [success |-> FALSE, message |-> <<ParameterNames[byType], "typeCheck">>]
        ELSE IF byValue # 0
        THEN [success |-> FALSE, message |-> <<ParameterNames[byValue], "valueCheck">>]
        ELSE IF byRange # 0
        THEN [success |-> FALSE, message |-> <<ParameterNames[byRange], "rangeCheck">>]
        ELSE [success |-> TRUE]

-----------------------------------------------------------------------------
(***************************************************************************)
(* The sessions.                                                           *)
(*                                                                         *)
(* The caller makes up to MaxCalls calls of capture and configDeterminator,*)
(* each awaited before the next.  calls[c] is call c: where its function   *)
(* body stands (pc), where the trigger / buffer / validate loop it started *)
(* stands (lp: trackCapture for capture, the while loop of the body for    *)
(* configDeterminator), and the loop's locals.  A loop outlives its call   *)
(* when the call returns on its timeout.                                   *)
(*                                                                         *)
(* Timers fire in any order: timeOut and trackSize are any numbers, and    *)
(* the loops of different calls are in no fixed phase to each other.       *)
(* AudioContext.resume() and suspend() are performed in the order they     *)
(* were called; the state changes and the promise resolves in one task, so *)
(* the code awaiting it continues with the state it asked for.             *)
(***************************************************************************)

MaxCalls == 2

\* the most readings one getData(trackSize) buffers
MaxBuffer == 2

Calls == 1..MaxCalls

\* what the microphone gives: a tone in the band (of capture's defaults and of
\* calibrateMic's) at the centre of the amplitude range, the same tone too
\* loud, and no pitch at all
Centred == <<3050, -25>>

Loud == <<3050, -10>>

Silent == <<NaN, Undefined>>

SessionReadings == {Centred, Loud, Silent}

\* what the microphone hears while the program runs: any of the three at each
\* reading, or one of them throughout
Sources == {"any", "centred", "loud", "silent"}

\* the readings a loop may get from freq(), pitch() and findAmplitude()
Readings ==
    CASE source = "centred" -> {Centred}
      [] source = "loud"    -> {Loud}
      [] source = "silent"  -> {Silent}
      [] OTHER              -> SessionReadings

\* the objects the caller passes to capture; the last one fails validation
CaptureParams ==
    {[timeOut |-> 10000],
     [validTrackPercentage |-> 0],
     [minFreq |-> 3100]}

\* calibrateMic's defaults for calibrationOptions
CalibrateDefaults ==
    [minAmplitude |-> -30, maxAmplitude |-> -20, validTrackPercentage |-> 70,
     minFreq |-> 3050, maxFreq |-> 3250, trackSize |-> 300,
     firstReadTimeOut |-> 5000, calibrationTimeOut |-> 10000]

\* calibrateMic's defaults for its other two parameters
CalibrateArgs == [amplitudeTolerance |-> 2, gainStep |-> 1]

\* calibrateMic() with no argument: calibrationOptions = {}
NoOptions == [n \in {} |-> Undefined]

\* the objects the caller passes to calibrateMic
CalibrateParams == {NoOptions, [minFreq |-> 2950, maxFreq |-> 3050]}

\* the objects the caller passes to configDeterminator; the last one fails
\* validation
ConfigDeterminatorParams == {[timeOut |-> 10000], [trackSize |-> 0]}

\* the JavaScript value undefined, where an object may stand
NoValue == [undefined |-> TRUE]

\* this.lastRead = {}
EmptyObject == [empty |-> TRUE]

MsgAmplitude == "Foi detectada uma faixa na frequencia esperada, mas fora da amplitude desejada"

MsgNoTrack == "Nenhuma faixa detectada na frequencia esperada"

MsgSuccess == "Faixa detectada dentro dos valores esperados"

MsgDetection == "Falha na deteccao da faixa esperada"

IdleCall ==
    [op |-> "none", cfg |-> NoValue, pc |-> "idle", lp |-> "none",
     sample |-> <<Undefined, Undefined>>, buf |-> <<>>, loopControl |-> FALSE,
     timer |-> "none", captured |-> NoValue, result |-> NoValue,
     how |-> "none", gate |-> FALSE, suspends |-> 0,
     args |-> NoValue]

\* the most rounds of gainDiscover a run of SpecGain goes through after its
\* first: each round halves the step
MaxDepth == 3

\* gains, steps and the amplitudes of gainDiscover are counted in units of
\* 1 / GainUnit, so that MaxDepth halvings of a step of 1 are whole numbers
GainUnit == Pow2(MaxDepth)

\* initOptions.gain ??= 1, the value createAnalyser gives the GainNode
DefaultGain == GainUnit

\* no gainDiscover is running
NoDiscover == [pc |-> "idle"]

BeepState ==
    /\ audioState = "suspended"
    /\ audioQueue = <<>>
    /\ lastRead = NoValue
    /\ EncontrouTrackFrequencia = FALSE
    /\ checkValues = [n \in {} |-> Undefined]
    /\ calls = [c \in Calls |-> IdleCall]

ClassState ==
    /\ BeepState
    /\ gain = DefaultGain
    /\ discover = NoDiscover

ClassInit == ClassState /\ source = "any"

\* no signal was handed to pitch or findAmplitude
NoSignal == [none |-> TRUE]

SignalIdle ==
    /\ inSignal = NoSignal
    /\ outPitch = NotRun
    /\ outAmplitude = NotRun
    /\ outFixed = NotRun

PureIdle ==
    /\ inTrack = MkTrack(<<>>)
    /\ inCfg = NoValue
    /\ outValid = NotRun
    /\ outMedia = NotRun
    /\ outPercent = NotRun
    /\ outCfg = NotRun
    /\ SignalIdle

Init == ClassState /\ source \in Sources /\ PureIdle

Finished(c) == calls[c].pc \in {"returned", "rejected"}

\* call c was made and has not returned
Active(c) == calls[c].pc \notin {"idle", "returned", "rejected"}

\* the caller may make call c: the calls before it were awaited
MayCall(c) ==
    /\ calls[c].pc = "idle"
    /\ \A d \in Calls : d < c => Finished(d)

Request(op, c) == [op |-> op, by |-> c]

\* A number with decimals is counted in units of 1 / unit: unit = 1 for the
\* whole readings of the sessions, unit = Milli in SpecFix.

\* thousandths
Milli == 1000

\* Number.isInteger(value)
IsInteger(value, unit) == IsNum(value) /\ value % unit = 0

\* parseFloat(value.toFixed(2)): the nearest multiple of 1/100, a value half
\* way between two going to the one of larger magnitude
ToFixed2(value, unit) ==
    LET cent == unit \div 100
        n    == (2 * Abs(value) + cent) \div (2 * cent)
    IN  IF value < 0 THEN -(n * cent) ELSE n * cent

\* the callback of fix, were it to cut the decimals after the second
fixValueTruncated(value, unit) ==
    IF IsNum(value) /\ ~IsInteger(value, unit)
    THEN LET cent == unit \div 100
         IN  IF value < 0 THEN -((Abs(value) \div cent) * cent)
             ELSE (value \div cent) * cent
    ELSE value

\* the callback of fix: isNaN(undefined) is true as isNaN(NaN) is
fixValue(value, unit) ==
    IF IsNum(value) /\ ~IsInteger(value, unit) THEN ToFixed2(value, unit)
    ELSE value

\* fix(buffer)
fix(buffer, unit) == [i \in 1..Len(buffer) |-> fixValue(buffer[i], unit)]

\* fixValues(FreqBuffer, AmpBuffer)
fixBuffers(FreqBuffer, AmpBuffer, unit) ==
    [frequencia |-> fix(FreqBuffer, unit), amplitude |-> fix(AmpBuffer, unit)]

\* fixValues on the buffers getData filled with the readings buf, which are
\* whole numbers, NaN or undefined
fixValues(buf) == fixBuffers(MkTrack(buf).frequencia, MkTrack(buf).amplitude, 1)

\* a trigger that looks at the frequency alone
QualifiesFrequencyOnly(sample, ConfigObj) == InFreqRange(sample[1], ConfigObj)

\* the test frequencyTrigger makes on its sample
Qualifies(sample, ConfigObj) ==
    /\ InFreqRange(sample[1], ConfigObj)
    /\ ConfigObj.amplitudeValidation =>
           /\ Ge(sample[2], Get(ConfigObj, "minAmplitude"))
           /\ Le(sample[2], Get(ConfigObj, "maxAmplitude"))

-----------------------------------------------------------------------------
(* The steps of a loop, on the record k of its call *)

\* getData(0, true) inside frequencyTrigger: one reading r is taken, then
\* `await this.delay(0)`
TakeSample(k, r) ==
    [k EXCEPT !.lp = "trigSample", !.sample = r, !.buf = <<>>, !.loopControl = FALSE]

\* a getData that tests loopControl before its first reading is pushed
StartBufferEmpty(k, r) ==
    [k EXCEPT !.lp = "buffer", !.buf = <<>>, !.loopControl = TRUE]

\* getData(ConfigObj.trackSize): the trackSize timer is set, the first reading
\* r is taken, then `await this.delay(0)`
StartBuffer(k, r) ==
    [k EXCEPT !.lp = "buffer", !.buf = <<r>>, !.loopControl = TRUE]

\* the loop of call k is over and nobody awaits it: its locals are gone
LoopGone(k) ==
    [k EXCEPT !.lp = "ended", !.sample = <<Undefined, Undefined>>, !.buf = <<>>,
              !.loopControl = FALSE]

\* trackCapture returns v.  While capture awaits the race, that settles it and
\* capture goes on to `await this.AudioContext.suspend()`; afterwards nobody
\* listens.
TrackCaptureReturns(k, v) ==
    IF k.pc = "race"
    THEN [k EXCEPT !.lp = "ended", !.pc = "suspend", !.captured = v,
                   !.how = "loop", !.suspends = @ + 1]
    ELSE LoopGone(k)

\* trackValidator threw inside trackCapture: its promise rejects, and so do the
\* race and capture while capture awaits it
TrackCaptureThrows(k) ==
    IF k.pc = "race"
    THEN [k EXCEPT !.lp = "ended", !.pc = "rejected", !.how = "throw"]
    ELSE LoopGone(k)

\* configDeterminator returns res (NoValue: it runs off its end)
ConfigDeterminatorReturns(k, res) ==
    [LoopGone(k) EXCEPT !.pc = "returned", !.result = res]

\* the loop's `while (this.AudioContext.state == "running")`, with what follows
\* it up to the next await
LoopTop(k, state, r) ==
    IF state = "running" THEN TakeSample(k, r)
    ELSE IF k.op = "capture" THEN TrackCaptureReturns(k, NoValue)
    ELSE ConfigDeterminatorReturns(k, NoValue)

\* AfterTrigger, were trackCapture to buffer without the test of line 354
AfterTriggerUnchecked(k, state, r) ==
    IF k.op = "capture"
    THEN StartBuffer(k, r)
    ELSE IF state = "suspended"
         THEN ConfigDeterminatorReturns(k, [success |-> FALSE, msg |-> MsgDetection])
         ELSE StartBuffer(k, r)

\* frequencyTrigger has returned: the test the loop makes before it buffers
AfterTrigger(k, state, r) ==
    IF k.op = "capture"
    THEN IF state # "running" THEN TrackCaptureReturns(k, NoValue)
         ELSE StartBuffer(k, r)
    ELSE IF state = "suspended"
         THEN ConfigDeterminatorReturns(k, [success |-> FALSE, msg |-> MsgDetection])
         ELSE StartBuffer(k, r)

\* AfterValidation, were a rejected track to be followed by another track
\* at once
AfterValidationBuffersAgain(k, v, state, r) ==
    IF v.threw
    THEN IF k.op = "capture" THEN TrackCaptureThrows(k)
         ELSE [k EXCEPT !.lp = "ended", !.pc = "rejected", !.how = "throw"]
    ELSE IF v.result
    THEN IF k.op = "capture" THEN TrackCaptureReturns(k, v)
         ELSE [k EXCEPT !.lp = "ended", !.pc = "suspend", !.captured = v,
                        !.how = "loop", !.suspends = @ + 1]
    ELSE IF state = "running" THEN StartBuffer(k, r)
    ELSE LoopTop(k, state, r)

\* trackValidator has returned v for the track just buffered
AfterValidation(k, v, state, r) ==
    IF v.threw
    THEN IF k.op = "capture" THEN TrackCaptureThrows(k)
         ELSE [k EXCEPT !.lp = "ended", !.pc = "rejected", !.how = "throw"]
    ELSE IF v.result
    THEN IF k.op = "capture" THEN TrackCaptureReturns(k, v)
         ELSE [k EXCEPT !.lp = "ended", !.pc = "suspend", !.captured = v,
                        !.how = "loop", !.suspends = @ + 1]
    ELSE LoopTop(k, state, r)

\* gate records, for a call in progress, that a track buffered meanwhile
\* satisfied the percentage gate of trackValidator
SeesGate(k, passed) == [k EXCEPT !.gate = @ \/ passed]

\* the suspend() a step calls when it takes call c to `await ...suspend()`
QueueAfter(c, k) ==
    IF calls[c].pc # "suspend" /\ k.pc = "suspend"
    THEN Append(audioQueue, Request("suspend", c))
    ELSE audioQueue

RECURSIVE SeqMin(_)
SeqMin(s) ==
    IF Len(s) = 1 THEN s[1]
    ELSE LET m == SeqMin(Tail(s)) IN IF s[1] < m THEN s[1] ELSE m

RECURSIVE SeqMax(_)
SeqMax(s) ==
    IF Len(s) = 1 THEN s[1]
    ELSE LET m == SeqMax(Tail(s)) IN IF s[1] > m THEN s[1] ELSE m

\* a result that takes each series from the other one
CaptureResultSwapped(capture, encontrou) ==
    IF capture = NoValue
    THEN IF encontrou THEN [success |-> FALSE, msg |-> MsgAmplitude]
         ELSE [success |-> FALSE, msg |-> MsgNoTrack]
    ELSE [success    |-> TRUE,
          msg        |-> MsgSuccess,
          frequencia |-> [values |-> capture.amplitude,
                          frequenciaMedia |-> capture.frequenciaMedia],
          amplitude  |-> [values |-> capture.frequencia,
                          amplitudeMedia |-> capture.amplitudeMedia]]

\* what capture returns once the AudioContext is suspended
CaptureResult(capture, encontrou) ==
    IF capture = NoValue
    THEN IF encontrou THEN [success |-> FALSE, msg |-> MsgAmplitude]
         ELSE [success |-> FALSE, msg |-> MsgNoTrack]
    ELSE [success    |-> TRUE,
          msg        |-> MsgSuccess,
          frequencia |-> [values |-> capture.frequencia,
                          frequenciaMedia |-> capture.frequenciaMedia],
          amplitude  |-> [values |-> capture.amplitude,
                          amplitudeMedia |-> capture.amplitudeMedia]]

\* what configDeterminator returns for a validated track
ConfigDeterminatorResult(ValidatedTrack) ==
    [success    |-> TRUE,
     frequencia |-> [min |-> SeqMin(ValidatedTrack.frequencia),
                     max |-> SeqMax(ValidatedTrack.frequencia),
                     media |-> ValidatedTrack.frequenciaMedia,
                     valores |-> ValidatedTrack.frequencia],
     amplitude  |-> [min |-> SeqMin(ValidatedTrack.amplitude),
                     max |-> SeqMax(ValidatedTrack.amplitude),
                     media |-> ValidatedTrack.amplitudeMedia,
                     valores |-> ValidatedTrack.amplitude]]

-----------------------------------------------------------------------------
(* The actions *)

\* a capture that resets lastRead before it validates its configuration
CaptureResetsFirst(c) ==
    /\ MayCall(c)
    /\ \E obj \in CaptureParams :
        LET ConfigObj   == WithDefaults(obj, CaptureDefaults)
            checkParams == validate(ConfigObj, checkValues)
            k == [IdleCall EXCEPT !.op = "capture", !.cfg = ConfigObj]
        IN  /\ checkValues' = StoredValues(ConfigObj, checkValues)
            /\ lastRead' = EmptyObject
            /\ IF ~checkParams.success
               THEN /\ calls' = [calls EXCEPT ![c] =
                            [k EXCEPT !.pc = "returned", !.result = checkParams,
                                      !.how = "config"]]
                    /\ UNCHANGED audioQueue
               ELSE /\ audioQueue' = Append(audioQueue, Request("resume", c))
                    /\ calls' = [calls EXCEPT ![c] = [k EXCEPT !.pc = "resume"]]
    /\ UNCHANGED <<audioState, EncontrouTrackFrequencia, pureVars, restVars>>

\* capture(obj), up to `await this.AudioContext.resume()`
Capture(c) ==
    /\ MayCall(c)
    /\ \E obj \in CaptureParams :
        LET ConfigObj   == WithDefaults(obj, CaptureDefaults)
            checkParams == validate(ConfigObj, checkValues)
            k == [IdleCall EXCEPT !.op = "capture", !.cfg = ConfigObj]
        IN  /\ checkValues' = StoredValues(ConfigObj, checkValues)
            /\ IF ~checkParams.success
               THEN /\ calls' = [calls EXCEPT ![c] =
                            [k EXCEPT !.pc = "returned", !.result = checkParams,
                                      !.how = "config"]]
                    /\ UNCHANGED <<lastRead, audioQueue>>
               ELSE /\ lastRead' = EmptyObject
                    /\ audioQueue' = Append(audioQueue, Request("resume", c))
                    /\ calls' = [calls EXCEPT ![c] = [k EXCEPT !.pc = "resume"]]
    /\ UNCHANGED <<audioState, EncontrouTrackFrequencia, pureVars, restVars>>

\* configDeterminator(obj), up to `await this.AudioContext.resume()`
ConfigDeterminator(c) ==
    /\ MayCall(c)
    /\ \E obj \in ConfigDeterminatorParams :
        LET ConfigObj   == ConfigDeterminatorConfig(obj)
            checkParams == validate(ConfigObj, checkValues)
            k == [IdleCall EXCEPT !.op = "configDeterminator", !.cfg = ConfigObj]
        IN  /\ checkValues' = StoredValues(ConfigObj, checkValues)
            /\ IF ~checkParams.success
               THEN /\ calls' = [calls EXCEPT ![c] =
                            [k EXCEPT !.pc = "returned", !.result = checkParams,
                                      !.how = "config"]]
                    /\ UNCHANGED audioQueue
               ELSE /\ audioQueue' = Append(audioQueue, Request("resume", c))
                    /\ calls' = [calls EXCEPT ![c] = [k EXCEPT !.pc = "resume"]]
    /\ UNCHANGED <<audioState, lastRead, EncontrouTrackFrequencia, pureVars, restVars>>

\* calibrateMic(obj), up to its first await.  Its defaults give every
\* calibrationOptions the property calibrationTimeOut, for which
\* parameterCheckConfigs has no entry: no call gets past validate, and
\* "firstRead" (the race of line 516) is never reached.
CalibrateMic(c) ==
    /\ MayCall(c)
    /\ \E obj \in CalibrateParams :
        LET calibrationOptions == WithDefaults(obj, CalibrateDefaults)
            checkParams == validate(calibrationOptions, checkValues)
            k == [IdleCall EXCEPT !.op = "calibrateMic", !.cfg = calibrationOptions,
                                  !.args = CalibrateArgs]
        IN  /\ checkValues' = StoredValues(calibrationOptions, checkValues)
            /\ calls' = [calls EXCEPT ![c] =
                    IF ~checkParams.success
                    THEN [k EXCEPT !.pc = "returned", !.result = checkParams,
                                   !.how = "config"]
                    ELSE [k EXCEPT !.pc = "firstRead"]]
    /\ UNCHANGED <<audioState, audioQueue, lastRead, EncontrouTrackFrequencia,
                   pureVars, restVars>>

\* resume() is done: capture starts trackCapture, which runs up to the first
\* await of its first sample, and then the timeOut timer of the race
CaptureResumed(c) ==
    /\ calls[c].op = "capture"
    /\ calls[c].pc = "resume"
    /\ audioQueue # <<>>
    /\ Head(audioQueue) = Request("resume", c)
    /\ audioState' = "running"
    /\ audioQueue' = Tail(audioQueue)
    /\ \E r \in Readings :
           calls' = [calls EXCEPT ![c] = [TakeSample(@, r) EXCEPT !.pc = "race"]]
    /\ UNCHANGED <<lastRead, EncontrouTrackFrequencia, checkValues, pureVars, restVars>>

\* resume() is done: configDeterminator sets the timer that will suspend the
\* AudioContext and enters its loop
ConfigDeterminatorResumed(c) ==
    /\ calls[c].op = "configDeterminator"
    /\ calls[c].pc = "resume"
    /\ audioQueue # <<>>
    /\ Head(audioQueue) = Request("resume", c)
    /\ audioState' = "running"
    /\ audioQueue' = Tail(audioQueue)
    /\ \E r \in Readings :
           calls' = [calls EXCEPT ![c] =
                        [TakeSample(@, r) EXCEPT !.pc = "loop", !.timer = "pending"]]
    /\ UNCHANGED <<lastRead, EncontrouTrackFrequencia, checkValues, pureVars, restVars>>

\* frequencyTrigger gets its sample: it returns on a qualifying one, and
\* awaits delay(50) otherwise
TriggerSampled(c) ==
    /\ calls[c].lp = "trigSample"
    /\ \E r \in Readings :
        LET k  == calls[c]
            k2 == IF Qualifies(k.sample, k.cfg) THEN AfterTrigger(k, audioState, r)
                  ELSE [k EXCEPT !.lp = "trigDelay"]
        IN  /\ calls' = [calls EXCEPT ![c] = k2]
            /\ audioQueue' = QueueAfter(c, k2)
    /\ UNCHANGED <<audioState, lastRead, EncontrouTrackFrequencia, checkValues, pureVars, restVars>>

\* delay(50) is over: frequencyTrigger polls again while the AudioContext runs
TriggerDelayed(c) ==
    /\ calls[c].lp = "trigDelay"
    /\ \E r \in Readings :
        LET k  == calls[c]
            k2 == IF audioState = "running" THEN TakeSample(k, r)
                  ELSE AfterTrigger(k, audioState, r)
        IN  /\ calls' = [calls EXCEPT ![c] = k2]
            /\ audioQueue' = QueueAfter(c, k2)
    /\ UNCHANGED <<audioState, lastRead, EncontrouTrackFrequencia, checkValues, pureVars, restVars>>

\* getData's timer: delay(time).then(() => { loopControl = false })
TrackSizeElapsed(c) ==
    /\ calls[c].lp = "buffer"
    /\ calls[c].loopControl
    /\ calls' = [calls EXCEPT ![c].loopControl = FALSE]
    /\ UNCHANGED <<audioState, audioQueue, lastRead, EncontrouTrackFrequencia,
                   checkValues, pureVars, restVars>>

\* getData's loop goes round: one more reading
BufferReading(c) ==
    /\ calls[c].lp = "buffer"
    /\ calls[c].loopControl
    /\ Len(calls[c].buf) < MaxBuffer
    /\ \E r \in Readings :
           calls' = [calls EXCEPT ![c].buf = Append(@, r)]
    /\ UNCHANGED <<audioState, audioQueue, lastRead, EncontrouTrackFrequencia,
                   checkValues, pureVars, restVars>>

\* getData returns the track: trackCapture stores it in lastRead, and the loop
\* validates it
TrackBuffered(c) ==
    /\ calls[c].lp = "buffer"
    /\ ~calls[c].loopControl
    /\ \E r \in Readings :
        LET k     == calls[c]
            track == fixValues(k.buf)
            v     == trackValidator(track, k.cfg)
            found == SetsEncontrouTrackFrequencia(track, k.cfg)
            k2    == AfterValidation(k, v, audioState, r)
        IN  /\ lastRead' = IF k.op = "capture" THEN track ELSE lastRead
            /\ EncontrouTrackFrequencia' = (EncontrouTrackFrequencia \/ found)
            /\ calls' = [d \in Calls |->
                            SeesGate(IF d = c THEN k2 ELSE calls[d], found /\ Active(d))]
            /\ audioQueue' = QueueAfter(c, k2)
    /\ UNCHANGED <<audioState, checkValues, pureVars, restVars>>

\* delay(ConfigObj.timeOut) wins the race: capture goes on with undefined
CaptureTimeout(c) ==
    /\ calls[c].op = "capture"
    /\ calls[c].pc = "race"
    /\ calls' = [calls EXCEPT ![c] =
                    [@ EXCEPT !.pc = "suspend", !.captured = NoValue,
                              !.how = "timeout", !.suspends = @ + 1]]
    /\ audioQueue' = Append(audioQueue, Request("suspend", c))
    /\ UNCHANGED <<audioState, lastRead, EncontrouTrackFrequencia, checkValues, pureVars, restVars>>

\* this.delay(ConfigObj.timeOut).then(() => { this.AudioContext.suspend() })
ConfigDeterminatorTimeout(c) ==
    /\ calls[c].op = "configDeterminator"
    /\ calls[c].timer = "pending"
    /\ calls' = [calls EXCEPT ![c].timer = "fired"]
    /\ audioQueue' = Append(audioQueue, Request("suspend", 0))
    /\ UNCHANGED <<audioState, lastRead, EncontrouTrackFrequencia, checkValues, pureVars, restVars>>

\* a capture that calls suspend() and returns without awaiting it
CaptureReturnsRunning(c) ==
    /\ calls[c].op = "capture"
    /\ calls[c].pc = "suspend"
    /\ audioQueue # <<>>
    /\ Head(audioQueue) = Request("suspend", c)
    /\ audioQueue' = Tail(audioQueue)
    /\ calls' = [calls EXCEPT ![c] =
                    [@ EXCEPT !.pc = "returned",
                              !.result = CaptureResult(calls[c].captured,
                                                       EncontrouTrackFrequencia)]]
    /\ EncontrouTrackFrequencia' = FALSE
    /\ UNCHANGED <<audioState, lastRead, checkValues, pureVars, restVars>>

\* suspend() is done: capture builds its result and returns
CaptureSuspended(c) ==
    /\ calls[c].op = "capture"
    /\ calls[c].pc = "suspend"
    /\ audioQueue # <<>>
    /\ Head(audioQueue) = Request("suspend", c)
    /\ audioState' = "suspended"
    /\ audioQueue' = Tail(audioQueue)
    /\ calls' = [calls EXCEPT ![c] =
                    [@ EXCEPT !.pc = "returned",
                              !.result = CaptureResult(calls[c].captured,
                                                       EncontrouTrackFrequencia)]]
    /\ EncontrouTrackFrequencia' = FALSE
    /\ UNCHANGED <<lastRead, checkValues, pureVars, restVars>>

\* suspend() is done: configDeterminator returns the validated track
ConfigDeterminatorSuspended(c) ==
    /\ calls[c].op = "configDeterminator"
    /\ calls[c].pc = "suspend"
    /\ audioQueue # <<>>
    /\ Head(audioQueue) = Request("suspend", c)
    /\ audioState' = "suspended"
    /\ audioQueue' = Tail(audioQueue)
    /\ calls' = [calls EXCEPT ![c] =
                    [@ EXCEPT !.pc = "returned",
                              !.result = ConfigDeterminatorResult(calls[c].captured)]]
    /\ UNCHANGED <<lastRead, EncontrouTrackFrequencia, checkValues, pureVars, restVars>>

\* the suspend() of a configDeterminator timer is done: nobody awaits it
TimerSuspended ==
    /\ audioQueue # <<>>
    /\ Head(audioQueue) = Request("suspend", 0)
    /\ audioState' = "suspended"
    /\ audioQueue' = Tail(audioQueue)
    /\ UNCHANGED <<lastRead, EncontrouTrackFrequencia, checkValues, calls, pureVars, restVars>>

Next ==
    \/ \E c \in Calls :
        \/ Capture(c)
        \/ ConfigDeterminator(c)
        \/ CalibrateMic(c)
        \/ CaptureResumed(c)
        \/ ConfigDeterminatorResumed(c)
        \/ TriggerSampled(c)
        \/ TriggerDelayed(c)
        \/ TrackSizeElapsed(c)
        \/ BufferReading(c)
        \/ TrackBuffered(c)
        \/ CaptureTimeout(c)
        \/ ConfigDeterminatorTimeout(c)
        \/ CaptureSuspended(c)
        \/ ConfigDeterminatorSuspended(c)
    \/ TimerSuspended

Spec == Init /\ [][Next]_vars

-----------------------------------------------------------------------------
(***************************************************************************)
(* gainDiscover.  No calibrateMic call reaches line 530 (see CalibrateMic), *)
(* so SpecGain has the caller do what lines 530-533 do: call the static    *)
(* method with the arguments line 531 passes (the gain of the GainNode,    *)
(* the median amplitude of a first reading at that gain, gainStep 1) and   *)
(* race its promise against delay(calibrationTimeOut).  The microphone     *)
(* answers a gain with an amplitude that grows with it (Response); each    *)
(* `await configDeterminator(calibrationOptions)` is one step, which       *)
(* returns a validated track with that median, or ends without one.        *)
(* discover holds the locals of the round in progress, and two records of  *)
(* the run: writes, every value it has written to GainNode.gain.value, and *)
(* read, the gain and the median of the reading that returned last (<<>>   *)
(* before the first, and when it returned no track), anchor, the gain and  *)
(* amplitude the round started from, and prev, the samples and the step of *)
(* the round before, in the order they were pushed.  resumed says that the *)
(* configDeterminator awaited has resumed the AudioContext.  race is how   *)
(* the Promise.race of line 530 stands: "pending", or settled by the       *)
(* "search" or by the "timeout".                                           *)
(***************************************************************************)

\* the amplitude (dB) at gain 0 and the dB gained per unit of gain
Responses ==
    {<<-35, 4>>, <<-45, 4>>, <<-15, 4>>, <<-40, 10>>, <<-27, 1>>, <<-90, 40>>}

\* the median amplitude configDeterminator measures at gain g
Response(resp, g) == resp[1] * GainUnit + resp[2] * g

\* the gains the GainNode may have when the run starts
StartGains == {GainUnit \div 2, GainUnit, 2 * GainUnit, 3 * GainUnit}

\* amplitudeSamples.reverse()
Reverse(s) == [i \in 1..Len(s) |-> s[Len(s) + 1 - i]]

\* amplitudeSamples.findLast(sample => sample[1] < centralAmplitude - amplitudeTolerance),
\* NoValue when there is none
FindLastBelow(samples, limit) ==
    LET below == {i \in 1..Len(samples) : samples[i][2] < limit}
    IN  IF below = {} THEN NoValue
        ELSE samples[CHOOSE i \in below : \A j \in below : j <= i]

\* condition(), for the direction fixed at the round's entry
Condition(d, currentAmplitude) ==
    IF d.down THEN currentAmplitude < d.central - d.tol
    ELSE currentAmplitude > d.central + d.tol

\* gainDiscover throws: its promise rejects
DiscoverThrows(d) == [d EXCEPT !.pc = "rejected"]

\* gainDiscover(calibrationOptions, centralAmplitude, currentAmplitude,
\* initialGain, gainStep, amplitudeTolerance) from its entry to its first
\* await, for the run d and the value g of the GainNode: the new run and gain
EnterRound(d, currentAmplitude, initialGain, gainStep, round) ==
    LET down == currentAmplitude > d.central
        d1   == [d EXCEPT !.current = currentAmplitude, !.down = down,
                          !.step = IF down THEN -gainStep ELSE gainStep,
                          !.samples = <<>>, !.round = round,
                          !.anchor = <<initialGain, currentAmplitude>>,
                          !.writes = @ \cup {initialGain}]
    IN  IF ~Condition(d1, currentAmplitude) /\ initialGain > 0
        THEN [gain |-> initialGain, run |-> [d1 EXCEPT !.pc = "reading"]]
        \* no round of the loop: amplitudeSamples[0] is undefined at line 592
        ELSE [gain |-> initialGain, run |-> DiscoverThrows(d1)]

\* AfterLoop, were the next round to keep the step of this one
AfterLoopSameStep(d, g) ==
    LET s1 == IF d.current > d.central THEN Reverse(d.samples) ELSE d.samples
        s2 == IF Len(s1) > 1 /\ g > 0
              THEN <<FindLastBelow(s1, d.central - d.tol)>>
              ELSE s1
    IN  IF s2[1] = NoValue THEN [gain |-> g, run |-> DiscoverThrows(d)]
        ELSE IF d.round = MaxDepth THEN [gain |-> g, run |-> [d EXCEPT !.pc = "deep"]]
        ELSE EnterRound([d EXCEPT !.prev = [samples |-> d.samples, step |-> d.step]],
                        s2[1][2], s2[1][1], Abs(d.step), d.round + 1)

\* the loop has ended with the GainNode at g: lines 583-596
AfterLoop(d, g) ==
    LET s1 == IF d.current > d.central THEN Reverse(d.samples) ELSE d.samples
        s2 == IF Len(s1) > 1 /\ g > 0
              THEN <<FindLastBelow(s1, d.central - d.tol)>>
              ELSE s1
    IN  IF s2[1] = NoValue THEN [gain |-> g, run |-> DiscoverThrows(d)]
        ELSE IF d.round = MaxDepth THEN [gain |-> g, run |-> [d EXCEPT !.pc = "deep"]]
        ELSE EnterRound([d EXCEPT !.prev = [samples |-> d.samples, step |-> d.step]],
                        s2[1][2], s2[1][1], Abs(d.step) \div 2, d.round + 1)

\* AfterReading, were line 580 to come before the test of line 572
AfterReadingStepsFirst(d, g, newAmplitude) ==
    LET g2 == g + d.step
        d2 == [d EXCEPT !.current = newAmplitude,
                        !.read = <<g, newAmplitude>>,
                        !.samples = Append(@, <<g, newAmplitude>>),
                        !.writes = @ \cup {g2}]
    IN  IF Abs(newAmplitude - d.central) <= d.tol
        THEN [gain |-> g2,
              run  |-> [d2 EXCEPT !.pc = "returned",
                                  !.result = [success |-> TRUE, gain |-> g2]]]
        ELSE IF ~Condition(d2, newAmplitude) /\ g2 > 0
             THEN [gain |-> g2, run |-> d2]
             ELSE AfterLoop(d2, g2)

\* configDeterminator has returned a track of median newAmplitude: lines
\* 568-581, the loop's test and what follows it up to the next await
AfterReading(d, g, newAmplitude) ==
    IF Abs(newAmplitude - d.central) <= d.tol
    THEN [gain |-> g,
          run  |-> [d EXCEPT !.pc = "returned",
                             !.read = <<g, newAmplitude>>,
                             !.result = [success |-> TRUE, gain |-> g]]]
    ELSE LET g2 == g + d.step
             d2 == [d EXCEPT !.current = newAmplitude,
                             !.read = <<g, newAmplitude>>,
                             !.samples = Append(@, <<g, newAmplitude>>),
                             !.writes = @ \cup {g2}]
         IN  IF ~Condition(d2, newAmplitude) /\ g2 > 0
             THEN [gain |-> g2, run |-> d2]
             ELSE AfterLoop(d2, g2)

MsgCalibration == "Tempo de calibracao do microfone foi excedido"

\* Promise.race([this.gainDiscover(...), this.delay(...)]): the first of the
\* two to settle settles the race; the run goes on either way
Raced(e) ==
    IF e.run.pc \in {"returned", "rejected"} /\ e.run.race = "pending"
    THEN [e EXCEPT !.run.race = "search"]
    ELSE e

\* what the race of line 530 gives the caller
RaceResult ==
    CASE discover.race = "timeout" -> [success |-> FALSE, msg |-> MsgCalibration]
      [] discover.race = "search" /\ discover.pc = "returned" -> discover.result
      [] OTHER -> NoValue

\* the caller has called gainDiscover as line 531 does: with the gain of the
\* GainNode and the median of a first reading at that gain, which is not
\* within the tolerance
InitGain ==
    /\ BeepState
    /\ PureIdle
    /\ source = "any"
    /\ gain \in StartGains
    /\ \E resp \in Responses :
        /\ Abs(Response(resp, gain) + 25 * GainUnit) > 2 * GainUnit
        /\ discover = [pc |-> "called", resp |-> resp,
                       central |-> -25 * GainUnit, tol |-> 2 * GainUnit,
                       current |-> Response(resp, gain), down |-> FALSE,
                       step |-> GainUnit, samples |-> <<>>, round |-> 0,
                       writes |-> {}, read |-> <<>>, result |-> NoValue,
                   anchor |-> <<>>, prev |-> NoValue, resumed |-> FALSE,
                       race |-> "pending"]

\* gainDiscover runs up to its first `await BeepListener.configDeterminator`
DiscoverEnter ==
    /\ discover.pc = "called"
    /\ LET e == Raced(EnterRound(discover, discover.current, gain, discover.step, 0))
       IN  /\ gain' = e.gain
           /\ discover' = e.run
    /\ UNCHANGED <<audioState, audioQueue, lastRead, EncontrouTrackFrequencia,
                   checkValues, calls, source, pureVars>>

\* the configDeterminator gainDiscover awaits has resumed the AudioContext
\* (line 651) and listens
ReadingResumed ==
    /\ discover.pc = "reading"
    /\ ~discover.resumed
    /\ audioState' = "running"
    /\ discover' = [discover EXCEPT !.resumed = TRUE]
    /\ UNCHANGED <<audioQueue, lastRead, EncontrouTrackFrequencia,
                   checkValues, calls, gain, source, pureVars>>

\* configDeterminator returns a validated track, measured at the present
\* gain, after its `await this.AudioContext.suspend()`
ReadingDone ==
    /\ discover.pc = "reading"
    /\ discover.resumed
    /\ source # "silent"
    /\ LET e == Raced(AfterReading([discover EXCEPT !.resumed = FALSE], gain,
                                   Response(discover.resp, gain)))
       IN  /\ gain' = e.gain
           /\ discover' = e.run
    /\ audioState' = "suspended"
    /\ UNCHANGED <<audioQueue, lastRead, EncontrouTrackFrequencia,
                   checkValues, calls, source, pureVars>>

\* configDeterminator returns without a track ({success: false, msg} of line
\* 656, or undefined off the end of its loop): line 570 reads
\* currentRead.amplitude.media and throws
ReadingWithoutTrack ==
    /\ discover.pc = "reading"
    /\ discover.resumed
    /\ discover' = Raced([gain |-> gain,
                          run  |-> DiscoverThrows([discover EXCEPT !.read = <<>>,
                                                                   !.resumed = FALSE])]).run
    /\ audioState' = "suspended"
    /\ UNCHANGED <<audioQueue, lastRead, EncontrouTrackFrequencia,
                   checkValues, calls, gain, source, pureVars>>

\* delay(calibrationOptions.calibrationTimeOut) wins the race of line 530
\* while gainDiscover awaits a reading
CalibrationTimeout ==
    /\ discover.pc = "reading"
    /\ discover.race = "pending"
    /\ discover' = [discover EXCEPT !.race = "timeout"]
    /\ UNCHANGED <<audioState, audioQueue, lastRead, EncontrouTrackFrequencia,
                   checkValues, calls, gain, source, pureVars>>

NextGain ==
    \/ DiscoverEnter
    \/ ReadingResumed
    \/ ReadingDone
    \/ ReadingWithoutTrack
    \/ CalibrationTimeout

SpecGain == InitGain /\ [][NextGain]_vars

\* The caller goes on once the race of line 530 has settled, and captures:
\* SpecBoth runs one search, from the default gain, and the capture calls that
\* follow it, while the microphone hears the centred tone or nothing.
CaptureAfterCalibration(c) ==
    /\ discover.race # "pending"
    /\ Capture(c)

InitBoth ==
    /\ BeepState
    /\ PureIdle
    /\ source \in {"centred", "silent"}
    /\ gain = DefaultGain
    /\ discover = [pc |-> "called", resp |-> <<-35, 4>>,
                   central |-> -25 * GainUnit, tol |-> 2 * GainUnit,
                   current |-> Response(<<-35, 4>>, gain), down |-> FALSE,
                   step |-> GainUnit, samples |-> <<>>, round |-> 0,
                   writes |-> {}, read |-> <<>>, result |-> NoValue,
                   anchor |-> <<>>, prev |-> NoValue, resumed |-> FALSE,
                   race |-> "pending"]

NextBoth ==
    \/ NextGain
    \/ \E c \in Calls :
        \/ CaptureAfterCalibration(c)
        \/ CaptureResumed(c)
        \/ TriggerSampled(c)
        \/ TriggerDelayed(c)
        \/ TrackSizeElapsed(c)
        \/ BufferReading(c)
        \/ TrackBuffered(c)
        \/ CaptureTimeout(c)
        \/ CaptureSuspended(c)

SpecBoth == InitBoth /\ [][NextBoth]_vars

\* a gainDiscover that is not waiting on a reading runs on to its next await,
\* and every `await configDeterminator` settles
FairGain ==
    /\ SpecGain
    /\ WF_vars(DiscoverEnter)
    /\ WF_vars(ReadingResumed)
    /\ WF_vars(ReadingDone \/ ReadingWithoutTrack)

-----------------------------------------------------------------------------
(***************************************************************************)
(* The pipeline's functions on their own.  SpecTrack hands trackValidator  *)
(* and calculaMediaFreqAmp every track of up to MaxTrackLen readings over  *)
(* a small set of readings; SpecPercent hands validaPorcentagemAcionamentos*)
(* tracks of up to MaxPercentLen readings, k of them in the band.          *)
(***************************************************************************)

MaxTrackLen == 3

MaxPercentLen == 100

\* a reading <<frequency, amplitude>> as getData pushes it: pitch gives a
\* finite frequency, whose bin findAmplitude reads, or NaN, whose "bin" is
\* undefined
PureReadings ==
    {<<f, a>> : f \in {10, 20, 30}, a \in {-28, -25, -22}} \cup {<<NaN, Undefined>>}

PureTracks ==
    {MkTrack(rs) : rs \in UNION {[1..n -> PureReadings] : n \in 1..MaxTrackLen}}

\* ConfigObj as capture passes it on (both amplitude bounds set) and as
\* configDeterminator does when its caller gave no amplitude bounds
PureConfigs ==
    {[minFreq |-> b[1], maxFreq |-> b[2], amplitudeValidation |-> av,
      minAmplitude |-> -26, maxAmplitude |-> -24,
      validTrackPercentage |-> p, trackSize |-> 500, timeOut |-> 10000] :
        b \in {<<20, 30>>, <<10, 20>>}, av \in BOOLEAN, p \in {0, 70}}
    \cup
    {[minFreq |-> b[1], maxFreq |-> b[2], amplitudeValidation |-> FALSE,
      validTrackPercentage |-> p, trackSize |-> 500, timeOut |-> 10000] :
        b \in {<<20, 30>>, <<10, 20>>}, p \in {0, 70}}

AllNumbers(s) == \A i \in 1..Len(s) : IsNum(s[i])

InitTrack ==
    /\ inTrack \in PureTracks
    /\ inCfg \in PureConfigs
    /\ outValid = NotRun
    /\ outMedia = NotRun
    /\ outPercent = NotRun
    /\ outCfg = NotRun
    /\ SignalIdle
    /\ ClassInit

RunTrackValidator ==
    /\ outValid = NotRun
    /\ outValid' = Ran(trackValidator(inTrack, inCfg))
    /\ UNCHANGED <<inTrack, inCfg, outMedia, outPercent, outCfg, signalVars, classVars>>

\* calculaMediaFreqAmp only ever gets filtered arrays: numbers throughout
RunCalculaMedia ==
    /\ outMedia = NotRun
    /\ AllNumbers(inTrack.frequencia)
    /\ outMedia' = Ran(calculaMediaFreqAmp(inTrack.frequencia, inTrack.amplitude))
    /\ UNCHANGED <<inTrack, inCfg, outValid, outPercent, outCfg, signalVars, classVars>>

NextTrack == RunTrackValidator \/ RunCalculaMedia

SpecTrack == InitTrack /\ [][NextTrack]_vars

\* n readings, the first k at 20 Hz (in the band), the others at 10 Hz
PercentTrack(n, k) ==
    [frequencia |-> [i \in 1..n |-> IF i <= k THEN 20 ELSE 10],
     amplitude  |-> [i \in 1..n |-> -25]]

PercentValues == {0, 7, 28, 50, 70, 100}

InitPercent ==
    /\ \E n \in 1..MaxPercentLen : \E k \in 0..n : inTrack = PercentTrack(n, k)
    /\ \E p \in PercentValues :
           inCfg = [minFreq |-> 20, maxFreq |-> 30, amplitudeValidation |-> TRUE,
                    minAmplitude |-> -26, maxAmplitude |-> -24,
                    validTrackPercentage |-> p, trackSize |-> 500, timeOut |-> 10000]
    /\ outValid = NotRun
    /\ outMedia = NotRun
    /\ outPercent = NotRun
    /\ outCfg = NotRun
    /\ SignalIdle
    /\ ClassInit

RunPercent ==
    /\ outPercent = NotRun
    /\ outPercent' = Ran(validaPorcentagemAcionamentos(inTrack.frequencia, inCfg))
    /\ UNCHANGED <<inTrack, inCfg, outValid, outMedia, outCfg, signalVars, classVars>>

NextPercent == RunPercent

SpecPercent == InitPercent /\ [][NextPercent]_vars

\* a property of an object: not there, or there with a value
Opt(values) == {[given |-> FALSE]} \cup {[given |-> TRUE, value |-> v] : v \in values}

\* the objects SpecDefaults passes to capture: properties left out, set to
\* undefined, or set, to false and 0 among other values
DefaultsChoices ==
    [minFreq : Opt({Undefined, 3000}),
     amplitudeValidation : Opt(BOOLEAN),
     maxAmplitude : Opt({Undefined, 0}),
     validTrackPercentage : Opt({0, 50}),
     trackSize : Opt({300}),
     timeOut : Opt({Undefined, 0})]

\* the object with the properties ch gives
ObjectOf(ch) == [n \in {m \in DOMAIN ch : ch[m].given} |-> ch[n].value]

InitDefaults ==
    /\ inTrack = MkTrack(<<>>)
    /\ \E ch \in DefaultsChoices : inCfg = ObjectOf(ch)
    /\ outValid = NotRun
    /\ outMedia = NotRun
    /\ outPercent = NotRun
    /\ outCfg = NotRun
    /\ SignalIdle
    /\ ClassInit

\* the ??= lines of capture on the object inCfg
RunCaptureDefaults ==
    /\ outCfg = NotRun
    /\ outCfg' = Ran(WithDefaults(inCfg, CaptureDefaults))
    /\ UNCHANGED <<inTrack, inCfg, outValid, outMedia, outPercent, signalVars, classVars>>

NextDefaults == RunCaptureDefaults

SpecDefaults == InitDefaults /\ [][NextDefaults]_vars

-----------------------------------------------------------------------------
(***************************************************************************)
(* pitch and findAmplitude.  A frequency is a fraction in lowest terms     *)
(* (the divisions of pitch are not rounded: the lags are small integers,   *)
(* and a double holds their quotients to one part in 2^53), or NotANumber. *)
(* SpecPitch hands pitch every frame of MaxFrame samples over {-1, 0, 1},  *)
(* the frame's length standing for Analyser.fftSize; SpecAmplitude hands   *)
(* findAmplitude frequencies and arrays of the default fftSize.            *)
(***************************************************************************)

\* initOptions.sampleRate ??= 48000
SampleRate == 48000

\* initOptions.fftSize ??= 2048
FftSize == 2048

\* let localMaxima = new Array(10)
MaxMaxima == 10

\* the samples of the frame SpecPitch hands to pitch
MaxFrame == 7

\* the frequency NaN
NotANumber == [nan |-> TRUE]

\* corrolatedSignal[l], for the frame x (x[i + 1] is timeDomainArray[i])
Corrolated(x, l) == Sum([i \in 1..(Len(x) - l) |-> x[i] * x[i + l]])

\* the loop of lines 176-190 from lag l on, localMaxima holding found and
\* length being localMaxima.length
RECURSIVE ScanMaxima(_, _, _, _)
ScanMaxima(x, l, found, length) ==
    IF l >= Len(x) THEN found
    ELSE LET isMax == /\ l > 1
                      /\ Corrolated(x, l - 2) - Corrolated(x, l - 1) < 0
                      /\ Corrolated(x, l - 1) - Corrolated(x, l) > 0
             found2 == IF isMax THEN Append(found, l - 1) ELSE found
         IN  IF isMax /\ Len(found2) >= length THEN found2
             ELSE ScanMaxima(x, l + 1, found2, length)

\* a scan whose localMaxima had room for one maximum more
LocalMaximaOfEleven(x) == ScanMaxima(x, 0, <<>>, MaxMaxima + 1)

\* localMaxima[0 .. maximaCount - 1], of `new Array(10)`
LocalMaxima(x) == ScanMaxima(x, 0, <<>>, MaxMaxima)

\* a pitch that starts its sum at 0 and averages the spacings between the
\* maxima alone
pitchOfSpacings(timeDomainArray) ==
    LET localMaxima == LocalMaxima(timeDomainArray)
        maximaCount == Len(localMaxima)
        maximaMean  == Sum([i \in 1..(maximaCount - 1) |->
                               localMaxima[i + 1] - localMaxima[i]])
    IN  IF maximaCount < 2 THEN NotANumber
        ELSE Quot(SampleRate * (maximaCount - 1), maximaMean)

\* a pitch that gives up unless it has two maxima
pitchOfTwoMaxima(timeDomainArray) ==
    LET localMaxima == LocalMaxima(timeDomainArray)
        maximaCount == Len(localMaxima)
        maximaMean  == localMaxima[1] +
                       Sum([i \in 1..(maximaCount - 1) |->
                               localMaxima[i + 1] - localMaxima[i]])
    IN  IF maximaCount < 2 THEN NotANumber
        ELSE Quot(SampleRate * maximaCount, maximaMean)

\* pitch(timeDomainArray): maximaMean starts at localMaxima[0] (undefined when
\* there is no maximum: undefined / 0 is NaN), gets the spacings added, is
\* divided by maximaCount, and divides sampleRate
pitch(timeDomainArray) ==
    LET localMaxima == LocalMaxima(timeDomainArray)
        maximaCount == Len(localMaxima)
        maximaMean  == localMaxima[1] +
                       Sum([i \in 1..(maximaCount - 1) |->
                               localMaxima[i + 1] - localMaxima[i]])
    IN  IF maximaCount = 0 THEN NotANumber
        ELSE Quot(SampleRate * maximaCount, maximaMean)

\* this.hertzPerDivision = initOptions.sampleRate / initOptions.fftSize
hertzPerDivision == Quot(SampleRate, FftSize)

\* Math.floor(n / d), d > 0
MathFloor(n, d) == n \div d

\* Math.round(n / d), d > 0: the nearest integer, halves upwards
MathRound(n, d) == (2 * n + d) \div (2 * d)

\* amplitudeArray[index]: undefined outside the array
AmplitudeAt(amplitudeArray, index) ==
    IF index \in DOMAIN amplitudeArray THEN amplitudeArray[index] ELSE Undefined

\* findAmplitude with Math.floor in place of Math.round
findAmplitudeFloor(frequency, amplitudeArray) ==
    IF frequency = NotANumber THEN Undefined
    ELSE AmplitudeAt(amplitudeArray,
                     MathFloor(frequency.num * hertzPerDivision.den,
                               frequency.den * hertzPerDivision.num))

\* findAmplitude(frequency, amplitudeArray); Math.round(NaN) is NaN, and
\* amplitudeArray[NaN] is undefined
findAmplitude(frequency, amplitudeArray) ==
    IF frequency = NotANumber THEN Undefined
    ELSE AmplitudeAt(amplitudeArray,
                     MathRound(frequency.num * hertzPerDivision.den,
                               frequency.den * hertzPerDivision.num))

Frames == [1..MaxFrame -> {-1, 0, 1}]

\* frames long enough for more than ten maxima: tones of period 2 and 3
ToneLen == 24

Tones ==
    {[i \in 1..ToneLen |-> IF i % 2 = 1 THEN 1 ELSE -1],
     [i \in 1..ToneLen |-> IF i % 2 = 1 THEN -1 ELSE 1],
     [i \in 1..ToneLen |-> (i % 3) - 1]}

InitPitch ==
    /\ inTrack = MkTrack(<<>>)
    /\ inCfg = NoValue
    /\ outValid = NotRun
    /\ outMedia = NotRun
    /\ outPercent = NotRun
    /\ outCfg = NotRun
    /\ \E x \in Frames \cup Tones : inSignal = [timeDomain |-> x]
    /\ outPitch = NotRun
    /\ outAmplitude = NotRun
    /\ outFixed = NotRun
    /\ ClassInit

RunPitch ==
    /\ outPitch = NotRun
    /\ outPitch' = [run |-> TRUE, value |-> pitch(inSignal.timeDomain),
                    localMaxima |-> LocalMaxima(inSignal.timeDomain)]
    /\ UNCHANGED <<inTrack, inCfg, outValid, outMedia, outPercent, outCfg,
                   inSignal, outAmplitude, outFixed, classVars>>

NextPitch == RunPitch

SpecPitch == InitPitch /\ [][NextPitch]_vars

\* frequency-domain arrays of fftSize entries, which tell their index
FrequencyDomains ==
    {[i \in 0..(FftSize - 1) |-> -i], [i \in 0..(FftSize - 1) |-> i - FftSize]}

\* the frequencies SpecAmplitude looks up: whole ones around 3000 Hz and at
\* the ends of the array, what pitch gives for one to three maxima at small
\* lags, and NaN
LookupFrequencies ==
    {Quot(f, 1) : f \in (2985..3015) \cup {0, 11, 12, 23988, 47964, 47976,
                                          47988, 47989, 48000, 96000}}
    \cup {Quot(SampleRate * k, l) : k \in 1..3, l \in {1, 2, 3, 7, 16, 17}}
    \cup {NotANumber}

InitAmplitude ==
    /\ inTrack = MkTrack(<<>>)
    /\ inCfg = NoValue
    /\ outValid = NotRun
    /\ outMedia = NotRun
    /\ outPercent = NotRun
    /\ outCfg = NotRun
    /\ \E f \in LookupFrequencies : \E a \in FrequencyDomains :
           inSignal = [frequency |-> f, frequencia |-> a]
    /\ outPitch = NotRun
    /\ outAmplitude = NotRun
    /\ outFixed = NotRun
    /\ ClassInit

RunFindAmplitude ==
    /\ outAmplitude = NotRun
    /\ outAmplitude' = Ran(findAmplitude(inSignal.frequency, inSignal.frequencia))
    /\ UNCHANGED <<inTrack, inCfg, outValid, outMedia, outPercent, outCfg,
                   inSignal, outPitch, outFixed, classVars>>

NextAmplitude == RunFindAmplitude

SpecAmplitude == InitAmplitude /\ [][NextAmplitude]_vars

-----------------------------------------------------------------------------
(***************************************************************************)
(* fixValues on readings with decimals, in thousandths.  A double that is  *)
(* not a whole number lies half way between two hundredths only when it is *)
(* an odd number of eighths (0.125, 0.375, ...): SpecFix has such readings *)
(* and none of the other decimal ties (1.005 is not a double, and where    *)
(* the double next to it falls differs from value to value).  SpecFix      *)
(* applies fixValues to the buffers and then to its own output.            *)
(***************************************************************************)

\* the most readings in the buffers SpecFix hands to fixValues
MaxFixLen == 2

\* (frequency, amplitude) readings, in thousandths: whole, not numbers, with
\* three decimals, what 48000 / 7 is to three decimals, eighths, values next
\* to a whole number, values with two decimals
FixReadings ==
    {<<3000000, -25000>>, <<NaN, Undefined>>, <<3050126, -25374>>,
     <<6857143, -125>>, <<125, -24996>>, <<2999996, -20375>>, <<10, -30010>>}

InitFix ==
    /\ \E n \in 0..MaxFixLen : \E rs \in [1..n -> FixReadings] : inTrack = MkTrack(rs)
    /\ inCfg = NoValue
    /\ outValid = NotRun
    /\ outMedia = NotRun
    /\ outPercent = NotRun
    /\ outCfg = NotRun
    /\ inSignal = NoSignal
    /\ outPitch = NotRun
    /\ outAmplitude = NotRun
    /\ outFixed = NotRun
    /\ ClassInit

\* fixValues(frequencyDataBuffer, amplitudeBuffer)
RunFixValues ==
    /\ outFixed = NotRun
    /\ LET finalData == fixBuffers(inTrack.frequencia, inTrack.amplitude, Milli)
       IN  outFixed' = [run |-> TRUE, times |-> 1, value |-> finalData,
                        once |-> finalData]
    /\ UNCHANGED <<inTrack, inCfg, outValid, outMedia, outPercent, outCfg,
                   inSignal, outPitch, outAmplitude, classVars>>

\* fixValues on what it returned
RunFixValuesAgain ==
    /\ outFixed.run
    /\ outFixed.times = 1
    /\ outFixed' = [outFixed EXCEPT
                       !.times = 2,
                       !.value = fixBuffers(@.frequencia, @.amplitude, Milli)]
    /\ UNCHANGED <<inTrack, inCfg, outValid, outMedia, outPercent, outCfg,
                   inSignal, outPitch, outAmplitude, classVars>>

NextFix == RunFixValues \/ RunFixValuesAgain

SpecFix == InitFix /\ [][NextFix]_vars

-----------------------------------------------------------------------------
(***************************************************************************)
(* ParameterValidator.validate on its own.  SpecValidate calls the static  *)
(* method up to MaxValidations times with the objects of ValidateParams;   *)
(* checkValues holds what the calls have stored in parameterCheckConfigs,  *)
(* and outCfg the object and the result of the last call.                  *)
(***************************************************************************)

MaxValidations == 3

ValidateParams ==
    {[minFreq |-> 3000],
     [maxFreq |-> 2000],
     [maxFreq |-> 3050],
     [minFreq |-> 2950, maxFreq |-> 3050],
     [minFreq |-> 3100, maxFreq |-> 3050],
     [minAmplitude |-> -25],
     [maxAmplitude |-> -20],
     [maxAmplitude |-> -30],
     [minAmplitude |-> -30, maxAmplitude |-> -20],
     [trackSize |-> 0],
     [timeOut |-> 10000]}

InitValidate == PureIdle /\ ClassInit

\* ParameterValidator.validate(params)
RunValidate ==
    /\ IF outCfg.run THEN outCfg.times < MaxValidations ELSE TRUE
    /\ \E params \in ValidateParams :
        /\ outCfg' = [run    |-> TRUE,
                      times  |-> IF outCfg.run THEN outCfg.times + 1 ELSE 1,
                      params |-> params,
                      value  |-> validate(params, checkValues)]
        /\ checkValues' = StoredValues(params, checkValues)
    /\ UNCHANGED <<inTrack, inCfg, outValid, outMedia, outPercent, signalVars,
                   audioState, audioQueue, lastRead, EncontrouTrackFrequencia,
                   calls, gain, discover, source>>

NextValidate == RunValidate

SpecValidate == InitValidate /\ [][NextValidate]_vars

-----------------------------------------------------------------------------
(* Claims about the pipeline's functions *)

\* the readings of inTrack whose frequency lies in [minFreq, maxFreq], as
\* <<frequency, amplitude>> pairs in acquisition order
InBandPairs ==
    SelectSeq([i \in 1..Len(inTrack.frequencia) |->
                   <<inTrack.frequencia[i], inTrack.amplitude[i]>>],
              LAMBDA r : r[1] # NaN /\ inCfg.minFreq <= r[1] /\ r[1] <= inCfg.maxFreq)

\* the percentage gate, in exact arithmetic
ExactGate == 100 * Len(InBandPairs) >= Len(inTrack.frequencia) * inCfg.validTrackPercentage

\* C5: with amplitudeValidation false, trackValidator accepts every track that
\* passes the percentage gate, whatever its amplitudes and whatever
\* minAmplitude and maxAmplitude hold (stated for the calls that return: there
\* is at least one reading in the band, so nothing throws).
C5_FrequencyOnlyAccepts ==
    (/\ outValid.run
     /\ ~inCfg.amplitudeValidation
     /\ ExactGate
     /\ Len(InBandPairs) >= 1)
    => outValid.value.result

\* C6: with amplitudeValidation true, trackValidator returns result:true only
\* if the track passes the percentage gate and amplitudeMedia is a defined
\* number with minAmplitude <= amplitudeMedia <= maxAmplitude, for every
\* filtered-track length >= 1.
C6_AmplitudeGate ==
    (/\ outValid.run
     /\ inCfg.amplitudeValidation
     /\ outValid.value.result)
    => /\ ExactGate
       /\ outValid.value.amplitudeMedia # Undefined
       /\ outValid.value.amplitudeMedia # NaN
       /\ inCfg.minAmplitude <= outValid.value.amplitudeMedia
       /\ outValid.value.amplitudeMedia <= inCfg.maxAmplitude

\* C7: validaPorcentagemAcionamentos returns true if and only if the number of
\* frequencies in [minFreq, maxFreq] is >= track.length * validTrackPercentage
\* / 100; 70 of 100 readings pass at 70 percent and 69 do not; at 0 percent
\* every non-empty track passes.
C7_PercentageGateExact ==
    outPercent.run => (outPercent.value <=> ExactGate)

\* C8: in every accepted result the frequencia and amplitude series have equal
\* length, hold exactly the in-band readings in acquisition order, and
\* frequencia[i] and amplitude[i] come from the same reading.
C8_FilterKeepsPairs ==
    (outValid.run /\ outValid.value.result)
    => /\ Len(outValid.value.frequencia) = Len(outValid.value.amplitude)
       /\ [i \in 1..Len(outValid.value.frequencia) |->
               <<outValid.value.frequencia[i], outValid.value.amplitude[i]>>]
          = InBandPairs

\* how many entries of s are below x (strictly, or not)
CountBelow(s, x, strict) ==
    Cardinality({i \in 1..Len(s) : IF strict THEN s[i] < x ELSE s[i] <= x})

\* C9: calculaMediaFreqAmp returns the arithmetic mean of the frequencies and
\* the value at index round(n/2) of the n amplitudes sorted ascending (nothing
\* is at that index when n = 1); for freq [10,20,30] and amp [-25,-22,-28] it
\* returns mean 20 and median amplitude -22.
C9_MeanAndIndexedMedian ==
    outMedia.run =>
        LET n     == Len(inTrack.amplitude)
            index == IF n % 2 = 0 THEN n \div 2 ELSE (n + 1) \div 2
            m     == outMedia.value
        IN  /\ ~m.threw
            /\ m.frequencia.num * n = Sum(inTrack.frequencia) * m.frequencia.den
            /\ IF index >= n THEN m.amplitude = Undefined
               ELSE /\ \E i \in 1..n : inTrack.amplitude[i] = m.amplitude
                    /\ CountBelow(inTrack.amplitude, m.amplitude, TRUE) <= index
                    /\ index < CountBelow(inTrack.amplitude, m.amplitude, FALSE)
            /\ (inTrack = MkTrack(<<(<<10, -25>>), (<<20, -22>>), (<<30, -28>>)>>)
                   => m.frequencia = [num |-> 20, den |-> 1] /\ m.amplitude = -22)

C9_Witness ==
    /\ outMedia.run
    /\ inTrack = MkTrack(<<(<<10, -25>>), (<<20, -22>>), (<<30, -28>>)>>)
    /\ outMedia.value.amplitude = -22

-----------------------------------------------------------------------------
(* Claims about capture and frequencyTrigger *)

\* a capture that passed validation and has returned
CaptureReturned(c) ==
    /\ calls[c].op = "capture"
    /\ calls[c].pc = "returned"
    /\ calls[c].how # "config"

\* C1: a capture that returned failure because timeOut elapsed reports "track
\* in the expected frequency, amplitude out of range" exactly when a track
\* buffered while that call was in progress satisfied the percentage gate, and
\* "no track in the expected frequency" otherwise, whatever calls came before.
C1_TimeoutMessage ==
    \A c \in Calls :
        (CaptureReturned(c) /\ calls[c].how = "timeout") =>
            /\ calls[c].gate => calls[c].result.msg = MsgAmplitude
            /\ ~calls[c].gate => calls[c].result.msg = MsgNoTrack

\* C2: a capture whose configuration validate accepted never throws: its
\* promise is not rejected, and once the call is over it has returned a result
\* with a success field.
C2_NeverRejects ==
    \A c \in Calls :
        calls[c].op = "capture" =>
            /\ calls[c].pc # "rejected"
            /\ calls[c].pc = "returned" => "success" \in DOMAIN calls[c].result

\* C3: when a capture that resumed the AudioContext returns (on an accepted
\* track or on timeout), it has called suspend() exactly once and the
\* AudioContext is suspended.
C3_SuspendedOnceAtReturn ==
    [][\A c \in Calls :
          (/\ calls[c].pc # "returned"
           /\ calls'[c].pc = "returned"
           /\ calls'[c].op = "capture"
           /\ calls'[c].how # "config") =>
              /\ calls'[c].suspends = 1
              /\ audioState' = "suspended"]_vars

C3_Witness ==
    \E c, d \in Calls :
        /\ CaptureReturned(c) /\ calls[c].how = "timeout"
        /\ CaptureReturned(d) /\ calls[d].result.success
        /\ calls[c].suspends = 1 /\ calls[d].suspends = 1
        /\ audioState = "suspended"

\* C4: a capture returns success only if, in that call, frequencyTrigger
\* returned on a qualifying sample, a track was then buffered and trackValidator
\* accepted it; the values and aggregates of the result are those of that
\* accepted track.
C4_SuccessIsAcceptedTrack ==
    \A c \in Calls :
        (calls[c].op = "capture" /\ calls[c].pc = "returned" /\ calls[c].result.success) =>
            LET k == calls[c]
                v == trackValidator(fixValues(k.buf), k.cfg)
            IN  /\ Qualifies(k.sample, k.cfg)
                /\ k.buf # <<>>
                /\ ~v.threw /\ v.result
                /\ k.result.frequencia.values = v.frequencia
                /\ k.result.frequencia.frequenciaMedia = v.frequenciaMedia
                /\ k.result.amplitude.values = v.amplitude
                /\ k.result.amplitude.amplitudeMedia = v.amplitudeMedia

C4_Witness ==
    \E c \in Calls :
        /\ calls[c].op = "capture" /\ calls[c].pc = "returned"
        /\ calls[c].result.success
        /\ Len(calls[c].buf) = 2
        /\ calls[c].result.frequencia.values = <<3050, 3050>>
        /\ calls[c].result.amplitude.amplitudeMedia = -25

\* the sample of loop k is in [minFreq, maxFreq] and, if amplitudeValidation is
\* set, its amplitude is in [minAmplitude, maxAmplitude]
SampleInConfig(k) ==
    /\ IsNum(k.sample[1])
    /\ k.sample[1] >= k.cfg.minFreq /\ k.sample[1] <= k.cfg.maxFreq
    /\ k.cfg.amplitudeValidation =>
          /\ IsNum(k.sample[2])
          /\ k.sample[2] >= k.cfg.minAmplitude /\ k.sample[2] <= k.cfg.maxAmplitude

\* C10: frequencyTrigger returns only (a) on a sample just taken that is in
\* the frequency band and, if amplitudeValidation is set, in the amplitude
\* range, or (b) when the AudioContext is not running; after a sample that does
\* not qualify it waits 50 ms and, the AudioContext running, polls again.
C10_TriggerReturns ==
    [][\A c \in Calls :
          LET k  == calls[c]
              k2 == calls'[c]
              inTrigger == k.lp \in {"trigSample", "trigDelay"}
              returns   == inTrigger /\ k2.lp \in {"buffer", "ended"}
          IN  /\ returns =>
                    \/ k.lp = "trigSample" /\ SampleInConfig(k)
                    \/ audioState # "running"
              /\ (k.lp = "trigSample" /\ ~SampleInConfig(k)) =>
                    k2.lp \in {"trigSample", "trigDelay"}
              /\ (k.lp = "trigSample" /\ k2.lp = "trigSample") => k2.sample = k.sample
              /\ (k.lp = "trigDelay" /\ audioState = "running") =>
                    k2.lp \in {"trigDelay", "trigSample"}]_vars

C10_Witness ==
    \E c, d \in Calls :
        /\ calls[c].lp = "trigDelay"
        /\ calls[d].lp = "buffer"
        /\ calls[d].sample = Centred
        /\ calls[d].cfg.amplitudeValidation
        /\ audioState = "running"

-----------------------------------------------------------------------------
(* Scheduling.  A timer that was set fires, a promise that settled runs its
   continuation and a resume() / suspend() that was called is performed: the
   steps of a call that was made are taken.  The caller is free never to make
   another call, and getData is free to take no further reading before its
   timer fires. *)

FairSpec ==
    /\ Spec
    /\ \A c \in Calls :
          /\ WF_vars(CaptureResumed(c))
          /\ WF_vars(ConfigDeterminatorResumed(c))
          /\ WF_vars(TriggerSampled(c))
          /\ WF_vars(TriggerDelayed(c))
          /\ WF_vars(TrackSizeElapsed(c))
          /\ WF_vars(TrackBuffered(c))
          /\ WF_vars(CaptureTimeout(c))
          /\ WF_vars(ConfigDeterminatorTimeout(c))
          /\ WF_vars(CaptureSuspended(c))
          /\ WF_vars(ConfigDeterminatorSuspended(c))
    /\ WF_vars(TimerSuspended)

\* C11: a capture that was called always eventually returns; with no track
\* accepted it returns a failure once timeOut has elapsed, whatever its loop is
\* doing at that moment.
C11_CaptureReturns ==
    \A c \in Calls :
        (calls[c].op = "capture") ~> (calls[c].op = "capture" /\ calls[c].pc = "returned")

\* C12: a capture, configDeterminator or calibrateMic whose configuration
\* validate rejects returns a structured failure in the step that calls it: the
\* call asks for no resume() or suspend(), starts no loop, and leaves the
\* AudioContext, lastRead and the gain as they were.
C12_ConfigFailureIsImmediate ==
    [][\A c \in Calls :
          (/\ calls[c].pc = "idle"
           /\ calls'[c].pc # "idle"
           /\ ~validate(calls'[c].cfg, checkValues).success) =>
              /\ calls'[c].pc = "returned"
              /\ calls'[c].result = validate(calls'[c].cfg, checkValues)
              /\ ~calls'[c].result.success
              /\ calls'[c].lp = "none"
              /\ audioQueue' = audioQueue
              /\ audioState' = audioState
              /\ lastRead' = lastRead
              /\ gain' = gain]_vars

C12_Witness ==
    \E c, d \in Calls :
        /\ calls[c].op = "capture" /\ calls[c].how = "timeout"
        /\ calls[d].op = "capture" /\ calls[d].how = "config"
        /\ c < d
        /\ lastRead \notin {NoValue, EmptyObject}

\* C13: when every reading the microphone gives has its frequency in
\* [minFreq, maxFreq] and its amplitude outside [minAmplitude, maxAmplitude],
\* a capture with amplitudeValidation set that fails on its timeout reports
\* "amplitude out of range", not "no track in the expected frequency".
C13_LoudIsAmplitudeFailure ==
    \A c \in Calls :
        (/\ source = "loud"
         /\ CaptureReturned(c)
         /\ calls[c].how = "timeout"
         /\ calls[c].cfg.amplitudeValidation
         /\ InFreqRange(Loud[1], calls[c].cfg)
         /\ Loud[2] > calls[c].cfg.maxAmplitude) =>
            calls[c].result.msg = MsgAmplitude

\* C14: lastRead belongs to the capture call in progress: it is emptied when
\* the call starts and written only with a track that call's own loop has
\* just buffered, so at the call's return it holds the last track of that call
\* (or is empty), never one of an earlier call or one written after a return.
C14_LastReadOwned ==
    [][lastRead' # lastRead =>
          \E c \in Calls :
              /\ calls'[c].op = "capture"
              /\ \/ calls[c].pc = "idle" /\ Active(c)' /\ lastRead' = EmptyObject
                 \/ /\ Active(c)
                    /\ calls[c].lp = "buffer"
                    /\ lastRead' = fixValues(calls[c].buf)]_vars

\* the defaults the claim names
C15_Defaults ==
    [minFreq |-> 2950, maxFreq |-> 3050, amplitudeValidation |-> TRUE,
     minAmplitude |-> -30, maxAmplitude |-> -20, validTrackPercentage |-> 70,
     trackSize |-> 500, timeOut |-> 10000]

\* C15: capture gives a field that is not set (absent, null or undefined) its
\* default, and keeps every value that was supplied, false and 0 included.
C15_DefaultsOnlyForUnset ==
    outCfg.run =>
        /\ DOMAIN outCfg.value = DOMAIN C15_Defaults
        /\ \A n \in DOMAIN C15_Defaults :
              IF n \notin DOMAIN inCfg THEN outCfg.value[n] = C15_Defaults[n]
              ELSE IF n = "amplitudeValidation" THEN outCfg.value[n] = inCfg[n]
              ELSE IF inCfg[n] = Undefined THEN outCfg.value[n] = C15_Defaults[n]
              ELSE outCfg.value[n] = inCfg[n]

C15_Witness ==
    /\ outCfg.run
    /\ DOMAIN inCfg = {"amplitudeValidation", "validTrackPercentage", "timeOut", "maxAmplitude"}
    /\ inCfg.timeOut = Undefined
    /\ outCfg.value.amplitudeValidation = FALSE
    /\ outCfg.value.validTrackPercentage = 0
    /\ outCfg.value.maxAmplitude = 0
    /\ outCfg.value.timeOut = 10000
    /\ outCfg.value.minFreq = 2950

\* C16: every result capture returns, on success, on either timeout failure
\* and on a configuration error, has the same fields: the success flag, the
\* message, the frequency series with its mean, the amplitude series with its
\* aggregate, and a field for the diagnostic track(s).
C16_SameFieldsOnAllPaths ==
    \A c \in Calls :
        (calls[c].op = "capture" /\ calls[c].pc = "returned") =>
            LET fields == DOMAIN calls[c].result
            IN  /\ {"success", "msg", "frequencia", "amplitude"} \subseteq fields
                /\ fields \ {"success", "msg", "frequencia", "amplitude"} # {}

\* the calibration defaults the claim names
C17_Defaults ==
    [minAmplitude |-> -30, maxAmplitude |-> -20, validTrackPercentage |-> 70,
     minFreq |-> 3050, maxFreq |-> 3250, trackSize |-> 300,
     firstReadTimeOut |-> 5000, calibrationTimeOut |-> 10000]

\* C17: calibrateMic called with no options works with the calibration
\* defaults (amplitudeTolerance 2 and gainStep 1 among them), and those pass
\* validate: the call goes on to its first reading and does not return a
\* configuration error.
C17_DefaultsPassValidation ==
    \A c \in Calls :
        (calls[c].op = "calibrateMic" /\ calls[c].cfg = C17_Defaults) =>
            /\ calls[c].args = [amplitudeTolerance |-> 2, gainStep |-> 1]
            /\ calls[c].how # "config"

\* a calibrateMic call that is over
CalibrateReturned(c) ==
    /\ calls[c].op = "calibrateMic"
    /\ calls[c].pc = "returned"

\* C18: when the median amplitude of the first reading is within
\* amplitudeTolerance of centralAmplitude = (minAmplitude + maxAmplitude) / 2
\* (the microphone hears the centred tone, in the band, throughout),
\* calibrateMic returns success with the gain it found on entry, and the gain
\* is not written.
C18_CentredKeepsGain ==
    \A c \in Calls :
        (/\ CalibrateReturned(c)
         /\ source = "centred"
         /\ InFreqRange(Centred[1], calls[c].cfg)
         /\ Abs(2 * Centred[2] - (calls[c].cfg.minAmplitude + calls[c].cfg.maxAmplitude))
                <= 2 * calls[c].args.amplitudeTolerance) =>
            /\ calls[c].result.success
            /\ "gain" \in DOMAIN calls[c].result
            /\ calls[c].result.gain = DefaultGain
            /\ gain = DefaultGain

\* C19: when no track in the band is validated within firstReadTimeOut (the
\* microphone hears no tone), calibrateMic returns the failure "no track
\* detected" and the gain search is not entered.
C19_SilentIsNoTrack ==
    \A c \in Calls :
        (CalibrateReturned(c) /\ source = "silent") =>
            /\ ~calls[c].result.success
            /\ "msg" \in DOMAIN calls[c].result
            /\ calls[c].result.msg = MsgNoTrack
            /\ discover = NoDiscover

\* C20: in a run of gainDiscover started with gain > 0 and gainStep > 0, every
\* value written to GainNode.gain.value, in every round, is > 0.
C20_GainStaysPositive ==
    discover.pc # "idle" =>
        /\ gain > 0
        /\ \A w \in discover.writes : w > 0

\* C21: whenever gainDiscover (calibrateMic's search) returns success, the
\* median amplitude of the most recent reading is within amplitudeTolerance of
\* centralAmplitude, that reading was taken at the returned gain, and the
\* returned gain is the gain set on the GainNode.
C21_SuccessIsLastReading ==
    (discover.pc = "returned" /\ discover.result.success) =>
        /\ Len(discover.read) = 2
        /\ Abs(discover.read[2] - discover.central) <= discover.tol
        /\ discover.read[1] = discover.result.gain
        /\ discover.result.gain = gain

\* a search returns success after a reading in a later round, below the gain
\* it started from
C21_Witness ==
    /\ discover.pc = "returned"
    /\ discover.result.success
    /\ discover.round >= 1
    /\ Cardinality(discover.writes) >= 3
    /\ discover.read = <<gain, Response(discover.resp, gain)>>

\* some gain > 0 yields an amplitude inside the tolerance band
HasTarget ==
    \E g \in 1..(10 * GainUnit) :
        Abs(Response(discover.resp, g) - discover.central) <= discover.tol

LeftBehind(c) ==
    /\ calls[c].op = "capture"
    /\ calls[c].pc = "returned"
    /\ calls[c].how = "timeout"
    /\ calls[c].lp # "ended"

\* C26: after capture returns on timeout, and while the AudioContext stays
\* suspended, the trackCapture loop it left behind completes at most the
\* acquisition in flight (the sample of the trigger with its delay(50), or the
\* track being buffered) and terminates at its next test of the state: it
\* starts no other trigger sample and no other track.
C26_LoopEndsAtNextCheck ==
    [][\A c \in Calls :
          (/\ LeftBehind(c)
           /\ audioState = "suspended"
           /\ calls'[c].lp # calls[c].lp) =>
              \/ calls'[c].lp = "ended"
              \/ calls[c].lp = "trigSample" /\ calls'[c].lp = "trigDelay"]_vars

\* a loop left behind has ended, after the timeout of its call, in a
\* suspended AudioContext, having stored the track it was buffering
C26_Witness ==
    \E c \in Calls :
        /\ calls[c].op = "capture"
        /\ calls[c].pc = "returned"
        /\ calls[c].how = "timeout"
        /\ calls[c].lp = "ended"
        /\ calls[c].result.msg = MsgNoTrack
        /\ audioState = "suspended"
        /\ lastRead \notin {NoValue, EmptyObject}
        /\ \A d \in Calls : d # c => calls[d].pc = "idle"

\* C27: at most one trigger/buffer/validate loop is live: when capture and
\* configDeterminator calls are issued one after another, each awaited before
\* the next, the loop of an earlier call takes no step while a later call is
\* in progress, and writes neither lastRead nor EncontrouTrackFrequencia then.
C27_OneLoopAtATime ==
    [][\A c, d \in Calls :
          (/\ c < d
           /\ Finished(c)
           /\ calls[c].op \in {"capture", "configDeterminator"}
           /\ Active(d)) =>
              /\ calls'[c] = calls[c]
              /\ calls'[d] = calls[d] =>
                     /\ lastRead' = lastRead
                     /\ EncontrouTrackFrequencia' = EncontrouTrackFrequencia]_vars

\* the lags of the maxima pitch collected in the frame of SpecPitch
CollectedLags == LocalMaxima(inSignal.timeDomain)

\* C28 as claimed: pitch returns an invalid (non-finite) frequency whenever
\* fewer than 2 local maxima of the autocorrelation are found, for 0 maxima
\* and for exactly 1 maximum.
C28_FewerThanTwoIsInvalid ==
    (outPitch.run /\ Len(CollectedLags) < 2) => outPitch.value = NotANumber

\* C28 as amended: pitch returns NaN when no local maximum is found; with
\* exactly 1 maximum, at lag L, it returns the finite frequency sampleRate / L.
C28_NoMaximumIsInvalid ==
    outPitch.run =>
        /\ Len(CollectedLags) = 0 => outPitch.value = NotANumber
        /\ Len(CollectedLags) = 1 =>
               /\ outPitch.value # NotANumber
               /\ outPitch.value.num * CollectedLags[1] = SampleRate * outPitch.value.den

\* pitch has run on a frame with exactly one maximum
C28_Witness ==
    /\ outPitch.run
    /\ Len(CollectedLags) = 1
    /\ outPitch.value = Quot(SampleRate, CollectedLags[1])

\* C29 as claimed: for k >= 2 collected lags L[0] < ... < L[k-1], pitch takes
\* as period the mean spacing between consecutive collected lags,
\* (L[k-1] - L[0]) / (k - 1), and returns sampleRate divided by it.
C29_MeanSpacingOfLags ==
    (outPitch.run /\ Len(CollectedLags) >= 2) =>
        LET k == Len(CollectedLags)
        IN  /\ outPitch.value # NotANumber
            /\ outPitch.value.num * (CollectedLags[k] - CollectedLags[1])
                   = SampleRate * (k - 1) * outPitch.value.den

\* C29 as amended: for k >= 2 collected lags, pitch takes as period the mean
\* of the k spacings counted from lag 0 (L[0], L[1] - L[0], ...), which is
\* L[k-1] / k, and returns sampleRate divided by it.
C29_MeanSpacingFromLagZero ==
    (outPitch.run /\ Len(CollectedLags) >= 2) =>
        LET k == Len(CollectedLags)
        IN  /\ \A i \in 1..(k - 1) : CollectedLags[i] < CollectedLags[i + 1]
            /\ outPitch.value # NotANumber
            /\ outPitch.value.num * CollectedLags[k]
                   = SampleRate * k * outPitch.value.den

\* pitch has run on a frame whose two maxima are not at L and 2L
C29_Witness ==
    /\ outPitch.run
    /\ Len(CollectedLags) = 2
    /\ CollectedLags[2] # 2 * CollectedLags[1]
    /\ outPitch.value = Quot(2 * SampleRate, CollectedLags[2])

\* C30: findAmplitude returns the magnitude at index
\* round(frequency / hertzPerDivision) of the frequency-domain array: for
\* frequency 3000 and hertzPerDivision 48000 / 2048 the element at index 128;
\* for an index outside the array, or a frequency that is not a number, an
\* undefined value.
C30_LookupAtRoundedBin ==
    outAmplitude.run =>
        LET f == inSignal.frequency
            a == inSignal.frequencia
            \* index i is the nearest to f / (48000 / 2048) = 16 f / 375
            nearest(i) == /\ (2 * i - 1) * 375 * f.den <= 2 * 16 * f.num
                          /\ 2 * 16 * f.num < (2 * i + 1) * 375 * f.den
        IN  IF f = NotANumber THEN outAmplitude.value = Undefined
            ELSE /\ \A i \in 0..(FftSize - 1) : nearest(i) => outAmplitude.value = a[i]
                 /\ (\A i \in 0..(FftSize - 1) : ~nearest(i)) =>
                        outAmplitude.value = Undefined
                 /\ f = Quot(3000, 1) => outAmplitude.value = a[128]

\* findAmplitude has looked up 3000 Hz
C30_Witness ==
    /\ outAmplitude.run
    /\ inSignal.frequency = Quot(3000, 1)
    /\ outAmplitude.value = inSignal.frequencia[128]
    /\ outAmplitude.value # Undefined

\* what C31 says of one value of a buffer and the value fixValues gave for it
FixedAsClaimed(value, fixed) ==
    IF ~IsNum(value) \/ value % Milli = 0 THEN fixed = value
    ELSE /\ fixed % (Milli \div 100) = 0
         /\ 2 * Abs(fixed - value) <= Milli \div 100

\* C31: fixValues preserves the length and order of both buffers, leaves
\* integers and NaN unchanged, rounds every other finite value to 2 decimal
\* places, and is idempotent: applied to its own output it changes nothing.
C31_FixValuesRoundsOnce ==
    outFixed.run =>
        /\ Len(outFixed.once.frequencia) = Len(inTrack.frequencia)
        /\ Len(outFixed.once.amplitude) = Len(inTrack.amplitude)
        /\ \A i \in 1..Len(inTrack.frequencia) :
               /\ FixedAsClaimed(inTrack.frequencia[i], outFixed.once.frequencia[i])
               /\ FixedAsClaimed(inTrack.amplitude[i], outFixed.once.amplitude[i])
        /\ outFixed.value = outFixed.once

\* fixValues has run twice on buffers with a value it rounds to a whole
\* number and a value half way between two hundredths
C31_Witness ==
    /\ outFixed.run
    /\ outFixed.times = 2
    /\ inTrack = MkTrack(<<(<<2999996, -20375>>), (<<125, -24996>>)>>)
    /\ outFixed.value.frequencia = <<3000000, 130>>
    /\ outFixed.value.amplitude = <<-20380, -25000>>

\* the samples of the round before whose amplitude undershoots the band
Undershooting ==
    {i \in 1..Len(discover.prev.samples) :
        discover.prev.samples[i][2] < discover.central - discover.tol}

\* C32: when a round of gainDiscover ends without success, the next round
\* starts from the recorded (gain, amplitude) sample that is the last one, in
\* the direction of travel, whose amplitude still undershoots the tolerance
\* band, with a step of exactly half the magnitude.
C32_AnchorIsLastUndershoot ==
    (discover.pc # "idle" /\ discover.round >= 1 /\ Undershooting # {}) =>
        /\ \E i \in Undershooting :
               /\ \A j \in Undershooting : j <= i
               /\ discover.anchor = discover.prev.samples[i]
        /\ 2 * Abs(discover.step) = Abs(discover.prev.step)

\* the lags at which the autocorrelation of the frame read has a local
\* maximum, among those the scan of a whole frame can compare
Peaks ==
    {m \in 1..(Len(inSignal.timeDomain) - 2) :
        /\ Corrolated(inSignal.timeDomain, m - 1) < Corrolated(inSignal.timeDomain, m)
        /\ Corrolated(inSignal.timeDomain, m) > Corrolated(inSignal.timeDomain, m + 1)}

\* C33: pitch records lag l - 1 as a local maximum exactly when
\* corr[l - 2] < corr[l - 1] and corr[l - 1] > corr[l]; the recorded lags are
\* strictly increasing, at most 10 are recorded, and the scan stops as soon
\* as the 10th is recorded.
C33_MaximaAreFirstTenPeaks ==
    outPitch.run =>
        LET found == outPitch.localMaxima
        IN  /\ Len(found) <= 10
            /\ \A i \in 1..(Len(found) - 1) : found[i] < found[i + 1]
            /\ {found[i] : i \in 1..Len(found)}
                   = {m \in Peaks : Cardinality({p \in Peaks : p < m}) < 10}

\* pitch has run on a frame with more than ten peaks and stopped at the tenth
C33_Witness ==
    /\ outPitch.run
    /\ Cardinality(Peaks) > 10
    /\ Len(outPitch.localMaxima) = 10
    /\ outPitch.localMaxima[10] = 20

\* the loop of call c starts to buffer a track in this step
BufferingStarts(c) ==
    /\ calls'[c].lp = "buffer"
    /\ calls[c].lp # "buffer" \/ (calls'[c].loopControl /\ ~calls[c].loopControl)

\* getData returns the track to the loop of call c in this step
BufferingEnds(c) ==
    /\ calls[c].lp = "buffer"
    /\ ~calls[c].loopControl
    /\ <<calls'[c].lp, calls'[c].buf, calls'[c].loopControl>>
           # <<calls[c].lp, calls[c].buf, calls[c].loopControl>>

\* C34: within trackCapture the phases follow the cycle trigger -> buffer ->
\* validate: a track buffering starts only from a frequencyTrigger that
\* returned on a qualifying sample, with the AudioContext seen running; what is
\* validated and stored is the track just buffered; a rejected track is
\* followed by the loop's test and a new trigger sample, never by another
\* buffering; and no buffering starts when the AudioContext is not running.
C34_TriggerBufferValidate ==
    [][\A c \in Calls :
          calls[c].op = "capture" =>
              LET k == calls[c]
                  v == trackValidator(fixValues(k.buf), k.cfg)
              IN  /\ BufferingStarts(c) =>
                         /\ k.lp = "trigSample"
                         /\ Qualifies(k.sample, k.cfg)
                         /\ audioState = "running"
                         /\ Len(calls'[c].buf) = 1
                  /\ BufferingEnds(c) =>
                         /\ lastRead' = fixValues(k.buf)
                         /\ (v.result /\ k.pc = "race") => calls'[c].captured = v
                         /\ v = Rejected =>
                                /\ calls'[c].lp \in {"trigSample", "ended"}
                                /\ audioState = "running" => calls'[c].lp = "trigSample"
                         /\ v # Rejected => calls'[c].lp = "ended"]_vars

\* the loop of a capture call waits for a new trigger after the track it
\* buffered was rejected
C34_Witness ==
    \E c \in Calls :
        /\ calls[c].op = "capture"
        /\ calls[c].pc = "race"
        /\ calls[c].lp = "trigSample"
        /\ audioState = "running"
        /\ lastRead \notin {NoValue, EmptyObject}
        /\ trackValidator(lastRead, calls[c].cfg) = Rejected
        /\ \A d \in Calls : d # c => calls[d].pc = "idle"

C35_ConfigDeterminatorSuspended ==
    [][\A c \in Calls :
          (/\ calls[c].op = "configDeterminator"
           /\ calls[c].pc \in {"loop", "suspend"}
           /\ calls'[c].pc = "returned") => audioState' = "suspended"]_vars

\* call c listens and its own timeOut has not elapsed
Listening(c) ==
    \/ calls[c].op = "capture" /\ calls[c].pc = "race"
    \/ /\ calls[c].op = "configDeterminator"
       /\ calls[c].pc = "loop"
       /\ calls[c].timer = "pending"

\* C36: a configDeterminator call's timeout affects only that call: once the
\* call has returned nothing it scheduled suspends the AudioContext, so a
\* capture or configDeterminator call started later keeps the AudioContext
\* running until its own timeOut (or its own validated track).
C36_OnlyOwnTimeoutSuspends ==
    \A c \in Calls : Listening(c) => audioState = "running"

\* C37: configDeterminator always returns a structured result with a
\* success field: success true with the frequency and amplitude statistics of
\* a validated track, or success false with a message; it never returns
\* without a value.
C37_AlwaysStructuredResult ==
    \A c \in Calls :
        (calls[c].op = "configDeterminator" /\ calls[c].pc = "returned") =>
            LET res == calls[c].result
            IN  /\ res # NoValue
                /\ "success" \in DOMAIN res
                /\ IF res.success
                   THEN {"frequencia", "amplitude"} \subseteq DOMAIN res
                   ELSE DOMAIN res \cap {"msg", "message"} # {}

\* C38: ParameterValidator.validate is history-independent: whatever calls
\* came before, validating an object gives the result it gives as the first
\* call; the minFreq <= maxFreq and minAmplitude <= maxAmplitude checks use
\* only values present in the object being validated.
C38_HistoryIndependent ==
    outCfg.run => outCfg.value = validate(outCfg.params, NoOptions)

\* C39: every track getData returns has a frequency and an amplitude series
\* of equal length, with at least one reading, in the order the readings were
\* taken (one reading for a trigger sample); getData does not look at the
\* AudioContext state: a buffering whose time has not elapsed goes on, reading
\* after reading, whatever the state.
C39_TrackIsWhatWasRead ==
    [][\A c \in Calls :
          calls[c].lp = "buffer" =>
              LET k     == calls[c]
                  track == fixValues(k.buf)
              IN  /\ Len(k.buf) >= 1
                  /\ Len(track.frequencia) = Len(k.buf)
                  /\ Len(track.amplitude) = Len(k.buf)
                  /\ \A i \in 1..Len(k.buf) :
                         /\ track.frequencia[i] = k.buf[i][1]
                         /\ track.amplitude[i] = k.buf[i][2]
                  /\ k.loopControl =>
                         /\ calls'[c].lp = "buffer"
                         /\ \/ calls'[c].buf = k.buf
                            \/ \E r \in Readings : calls'[c].buf = Append(k.buf, r)
                  /\ (BufferingEnds(c) /\ k.op = "capture") => lastRead' = track]_vars

\* a track is being buffered, and has got its second reading, by the loop of
\* a capture that has returned on its timeout and suspended the AudioContext
C39_Witness ==
    \E c \in Calls :
        /\ LeftBehind(c)
        /\ audioState = "suspended"
        /\ calls[c].lp = "buffer"
        /\ calls[c].loopControl
        /\ Len(calls[c].buf) = 2

=============================================================================
